---- MODULE Spec2Model ----
(***************************************************************************)
(* Model of the two MCP servers of the repository:                         *)
(*   - the HTTP server: ExpressMcpServer (POST /mcp) over McpServer, the   *)
(*     registerMethod/handleRequest dispatcher, with the JSON-RPC helpers; *)
(*   - the stdio server: StdioTransport (one JSON value per line) over     *)
(*     MCPServer, the switch dispatcher with the three registries.         *)
(* The variable program says which of the two entry points is running.     *)
(***************************************************************************)
EXTENDS Integers, Sequences, FiniteSets, TLC

VARIABLES
    program,          \* "express" | "stdio": the entry point that was started
    development,      \* process.env.NODE_ENV === 'development' (read by the HTTP server)
    \* ---- McpServer (HTTP) ----
    initialized,      \* McpServer.initialized
    methodHandlers,   \* McpServer.methodHandlers: method name -> handler
    capabilities,     \* McpServer.capabilities
    serverInfo,       \* McpServer.serverInfo
    logLevel,         \* logger.currentLevel
    registerCalls,    \* number of registerMethod calls made after construction
    lastRegisterMethod, \* the last of them: [method, handler] (NoRegisterMethod: none)
    httpBody,         \* req.body of the POST /mcp just answered (NoBody: none)
    httpStatus,       \* status of its answer (0: none)
    httpSent,         \* body of its answer, as serialized
    steps,            \* one record per member of its body
    \* ---- MCPServer (stdio) ----
    sInitialized,     \* MCPServer.initialized
    sCapabilities,    \* MCPServer.capabilities
    sServerInfo,      \* MCPServer.serverInfo
    resources,        \* MCPServer.resources, in insertion order
    tools,            \* MCPServer.tools, in insertion order
    prompts,          \* MCPServer.prompts, in insertion order
    registrations,    \* number of register* calls made after setupServer
    registered,       \* the register* calls made so far, setupServer's included
    line,             \* the input line just handled (NoLine: none)
    call,             \* the handleRequest call it caused
    written,          \* the lines written to stdout for it
    \* ---- handlers in flight ----
    taken,            \* handleMcpRequest: members of the body the for loop has taken
    inFlight,         \* handleMcpRequest: handleRequest calls that have not completed
    reads,            \* stdio: the lines of the input chunk read so far, with their calls
    queue,            \* stdio: the suspended line handlers, in the order they resume
    stdout,           \* stdio: the lines written for the chunk, in the order written
    draining          \* stdio: the chunk is read and the suspended handlers are resuming

httpVars == <<initialized, methodHandlers, capabilities, serverInfo, logLevel,
              registerCalls, lastRegisterMethod, httpBody, httpStatus, httpSent, steps>>
stdioVars == <<sInitialized, sCapabilities, sServerInfo, resources, tools,
               prompts, registrations, registered, line, call, written>>
flightVars == <<taken, inFlight, reads, queue, stdout, draining>>
vars == <<program, development, httpVars, stdioVars, flightVars>>

----------------------------------------------------------------------------
(* Bounds of the model *)

MaxBatch == 2            \* members of a batch body
MaxRegisterCalls == 1    \* registerMethod calls after construction
MaxRegistrations == 1    \* register{Resource,Tool,Prompt} calls after setupServer

----------------------------------------------------------------------------
(* JavaScript values: a type tag and the value's text *)

Undefined == [t |-> "undefined", v |-> ""]
Null == [t |-> "null", v |-> ""]
Str(s) == [t |-> "string", v |-> s]
Num(s) == [t |-> "number", v |-> s]
Bool(s) == [t |-> "boolean", v |-> s]
Obj(s) == [t |-> "object", v |-> s]

\* x as the condition of ||, ! and if
Truthy(x) ==
    ~ \/ x.t \in {"undefined", "null"}
      \/ (x.t = "string" /\ x.v = "")
      \/ (x.t = "number" /\ x.v = "0")
      \/ (x.t = "boolean" /\ x.v = "false")

\* a || b
OrElse(a, b) == IF Truthy(a) THEN a ELSE b

\* `${x}`
Template(x) == IF x.t \in {"undefined", "null"} THEN x.t ELSE x.v

----------------------------------------------------------------------------
(* Error codes: enum McpErrorCode *)

ParseError == -32700
InvalidRequest == -32600
MethodNotFound == -32601
InvalidParams == -32602
InternalError == -32603

ProtocolVersion == "2024-11-05"

----------------------------------------------------------------------------
(* Parsed JSON values that arrive as messages.  shape is the kind of JSON   *)
(* value; the members are Undefined when the value has no such member.      *)

\* params.arguments: text and expression are read by the HTTP server's tools,
\* message, operation, a and b by the stdio server's
NoArgs == [t |-> "undefined", text |-> Undefined, expression |-> Undefined,
           message |-> Undefined, operation |-> Undefined, a |-> Undefined,
           b |-> Undefined]
Args(text, expression, message) ==
    [NoArgs EXCEPT !.t = "object", !.text = text, !.expression = expression,
                   !.message = message]
CalcArgs(operation, a, b) ==
    [NoArgs EXCEPT !.t = "object", !.operation = operation, !.a = a, !.b = b]

NoParams == [t |-> "undefined", protocolVersion |-> Undefined, uri |-> Undefined,
             name |-> Undefined, level |-> Undefined, arguments |-> NoArgs]
InitializeParams(protocolVersion) ==
    [NoParams EXCEPT !.t = "object", !.protocolVersion = protocolVersion]
UriParams(uri) == [NoParams EXCEPT !.t = "object", !.uri = uri]
NameParams(name, args) == [NoParams EXCEPT !.t = "object", !.name = name, !.arguments = args]
LevelParams(level) == [NoParams EXCEPT !.t = "object", !.level = level]

Message(jsonrpc, id, method, params, code) ==
    [kind |-> "message", shape |-> "object", jsonrpc |-> jsonrpc, id |-> id,
     method |-> method, params |-> params, code |-> code]

\* the JSON values null and 5, which have no members
NonObject(shape) ==
    [kind |-> "message", shape |-> shape, jsonrpc |-> Undefined, id |-> Undefined,
     method |-> Undefined, params |-> NoParams, code |-> Undefined]

----------------------------------------------------------------------------
(* utils/jsonrpc: responses and errors *)

Absent == [kind |-> "absent"]            \* no such member
UndefinedResult == [kind |-> "undefined"] \* the member is there, its value is undefined
NoResponse == [kind |-> "null"]          \* handleRequest's null

createJsonRpcError(code, message, data) ==
    [kind |-> "error", code |-> code, message |-> message, data |-> data]

\* if (error) response.error = error; else response.result = result
createJsonRpcResponse(id, result, error) ==
    IF error # Absent
    THEN [kind |-> "response", id |-> id, result |-> Absent, error |-> error]
    ELSE [kind |-> "response", id |-> id, result |-> result, error |-> Absent]

createParseError(data) == createJsonRpcError(ParseError, "Parse error", data)

createInvalidRequestError(data) ==
    createJsonRpcError(InvalidRequest, "Invalid Request", data)

\* a faulty variant: the unknown method reported as an internal error
createMethodNotFoundError_AsInternal(method) ==
    createJsonRpcError(InternalError, "Internal error", Obj(method.v))

createMethodNotFoundError(method) ==
    createJsonRpcError(MethodNotFound, "Method not found", Obj(method.v))

createInvalidParamsError(data) ==
    createJsonRpcError(InvalidParams, "Invalid params", data)

createInternalError(data) ==
    createJsonRpcError(InternalError, "Internal error", data)

\* a faulty variant: the protocol tag is not compared
isValidJsonRpcRequest_NoVersionCheck(obj) ==
    /\ obj.shape = "object"
    /\ obj.method.t = "string"
    /\ obj.id.t \in {"undefined", "null", "string", "number"}

isValidJsonRpcRequest(obj) ==
    /\ obj.shape # "null"                       \* obj &&
    /\ obj.shape = "object"                     \* typeof obj === 'object'
    /\ obj.jsonrpc = Str("2.0")
    /\ obj.method.t = "string"
    /\ obj.id.t \in {"undefined", "null", "string", "number"}

\* the request itself, or an InvalidRequest error
validateJsonRpcRequest(obj) ==
    IF ~isValidJsonRpcRequest(obj)
    THEN createInvalidRequestError(Str("Invalid JSON-RPC 2.0 request format"))
    ELSE obj

isNotification(request) == request.id = Undefined

formatErrorResponse(id, error) == createJsonRpcResponse(id, UndefinedResult, error)

\* JSON.stringify of a response: a member whose value is undefined is left out
Serialize(response) ==
    [response EXCEPT !.result = IF @ = UndefinedResult THEN Absent ELSE @]

----------------------------------------------------------------------------
(* McpServer: construction *)

ExpressServerInfo == [name |-> "mcp-server-express", version |-> "1.0.0"]

ExpressCapabilities ==
    [logging |-> "{}",
     resources |-> [subscribe |-> FALSE, listChanged |-> FALSE],
     tools |-> [listChanged |-> FALSE],
     prompts |-> [listChanged |-> FALSE]]

\* the method names that occur in messages and registrations
MethodNames ==
    {"initialize", "initialized", "notifications/initialized", "resources/list",
     "resources/read", "tools/list", "tools/call", "prompts/list", "prompts/get",
     "logging/setLevel", "unknown/method", "ext/custom"}

NoHandler == "none"    \* methodHandlers.get(m) === undefined

\* setupDefaultHandlers
DefaultHandlers ==
    [m \in MethodNames |->
        CASE m = "initialize" -> "handleInitialize"
          [] m = "initialized" -> "handleInitialized"
          [] m = "resources/list" -> "handleListResources"
          [] m = "resources/read" -> "handleReadResource"
          [] m = "tools/list" -> "handleListTools"
          [] m = "tools/call" -> "handleCallTool"
          [] m = "prompts/list" -> "handleListPrompts"
          [] m = "prompts/get" -> "handleGetPrompt"
          [] m = "logging/setLevel" -> "handleSetLevel"
          [] OTHER -> NoHandler]

\* handlers an extension registers: one that returns, one that throws an Error,
\* one that throws a JSON-RPC error object (not an Error)
ExtHandlers == {"extReturn", "extThrow", "extReject"}

\* the method names registerMethod is called with after construction
RegMethods == {"initialize", "ext/custom"}

----------------------------------------------------------------------------
(* McpServer: the handlers.  A handler gets the params and the session      *)
(* st = [initialized, logLevel] and returns or throws.                      *)

Return(value, st) ==
    [kind |-> "return", value |-> value, thrown |-> Absent, st |-> st]

Throw(thrown, st) ==
    [kind |-> "throw", value |-> Absent, thrown |-> thrown, st |-> st]

\* new Error(message), TypeError included
Error(message) ==
    [kind |-> "Error", isError |-> TRUE, hasCode |-> FALSE, message |-> message]

\* a thrown value that is no Error: here a JsonRpcError object
Rejection(error) ==
    [kind |-> "object", isError |-> FALSE, hasCode |-> TRUE, error |-> error]

\* a faulty variant: the result reports tools.listChanged the other way round
InitializeResult_TogglesListChanged(caps, info) ==
    [kind |-> "initialize", protocolVersion |-> ProtocolVersion,
     capabilities |-> [caps EXCEPT !.tools.listChanged = ~@], serverInfo |-> info]

InitializeResult(caps, info) ==
    [kind |-> "initialize", protocolVersion |-> ProtocolVersion,
     capabilities |-> caps, serverInfo |-> info]

\* a faulty variant: a strict initialize, which throws on a second call
handleInitialize_Strict(params, st) ==
    IF st.initialized
    THEN Throw(Error("Already initialized"), st)
    ELSE Return(InitializeResult(capabilities, serverInfo),
                [st EXCEPT !.initialized = TRUE])

handleInitialize(params, st) ==
    Return(InitializeResult(capabilities, serverInfo),
           [st EXCEPT !.initialized = TRUE])

handleInitialized(params, st) == Return(UndefinedResult, st)

handleListResources(params, st) ==
    Return([kind |-> "resources",
            resources |-> <<"file:///example.txt", "http://example.com/api/data">>], st)

handleReadResource(params, st) ==
    IF params.t = "undefined"
    THEN Throw(Error("Cannot destructure property 'uri' of 'params' as it is undefined."), st)
    ELSE IF params.uri = Str("file:///example.txt")
    THEN Return([kind |-> "contents", uri |-> params.uri, mimeType |-> "text/plain",
                 text |-> "This is example content from a text file."], st)
    ELSE IF params.uri = Str("http://example.com/api/data")
    THEN Return([kind |-> "contents", uri |-> params.uri, mimeType |-> "application/json",
                 text |-> "{message, timestamp}"], st)
    ELSE Throw(Error("Resource not found: " \o Template(params.uri)), st)

handleListTools(params, st) ==
    Return([kind |-> "tools", tools |-> <<"echo", "calculate">>], st)

\* evaluateExpression on the expressions of the model: the number as text, or the
\* message of the Error it throws
evaluateExpression(expression) ==
    CASE expression.t # "string" ->
            [ok |-> FALSE, text |-> "expression.replace is not a function"]
      [] expression \in {Str(""), Str("abc")} ->
            [ok |-> FALSE, text |-> "Invalid characters in expression"]
      [] expression = Str("2 + 3") -> [ok |-> TRUE, text |-> "5"]
      [] OTHER -> [ok |-> FALSE, text |-> "Invalid mathematical expression"]

ToolResult(text, isError) ==
    [kind |-> "toolResult", content |-> <<[type |-> "text", text |-> text]>>,
     isError |-> isError]

\* a faulty variant: echo answers as the stdio server's echo tool does
handleCallTool_EchoPrefixed(params, st) ==
    IF params.t = "undefined"
    THEN Throw(Error("Cannot destructure property 'name' of 'params' as it is undefined."), st)
    ELSE CASE params.name = Str("echo") ->
                Return(ToolResult(
                          Str("Echo: " \o Template(OrElse(params.arguments.text,
                                                          Str("No text provided")))),
                          Undefined), st)
           [] params.name = Str("calculate") ->
                LET r == evaluateExpression(OrElse(params.arguments.expression, Str("")))
                IN  IF r.ok
                    THEN Return(ToolResult(Str("Result: " \o r.text), Undefined), st)
                    ELSE Return(ToolResult(Str("Error: " \o r.text), Bool("true")), st)
           [] OTHER -> Throw(Error("Unknown tool: " \o Template(params.name)), st)

handleCallTool(params, st) ==
    IF params.t = "undefined"
    THEN Throw(Error("Cannot destructure property 'name' of 'params' as it is undefined."), st)
    ELSE CASE params.name = Str("echo") ->
                Return(ToolResult(OrElse(params.arguments.text, Str("No text provided")),
                                  Undefined), st)
           [] params.name = Str("calculate") ->
                LET r == evaluateExpression(OrElse(params.arguments.expression, Str("")))
                IN  IF r.ok
                    THEN Return(ToolResult(Str("Result: " \o r.text), Undefined), st)
                    ELSE Return(ToolResult(Str("Error: " \o r.text), Bool("true")), st)
           [] OTHER -> Throw(Error("Unknown tool: " \o Template(params.name)), st)

handleListPrompts(params, st) ==
    Return([kind |-> "prompts", prompts |-> <<"summarize">>], st)

handleGetPrompt(params, st) ==
    IF params.t = "undefined"
    THEN Throw(Error("Cannot destructure property 'name' of 'params' as it is undefined."), st)
    ELSE IF params.name = Str("summarize")
    THEN Return([kind |-> "prompt", description |-> "Prompt for text summarization",
                 messages |-> <<[role |-> "user", type |-> "text",
                                 text |-> OrElse(params.arguments.text, Str(""))]>>], st)
    ELSE Throw(Error("Unknown prompt: " \o Template(params.name)), st)

handleSetLevel(params, st) ==
    IF params.t = "undefined"
    THEN Throw(Error("Cannot read properties of undefined (reading 'level')"), st)
    ELSE Return(UndefinedResult, [st EXCEPT !.logLevel = params.level])

\* await handler(request.params)
Invoke(handler, params, st) ==
    CASE handler = "handleInitialize" -> handleInitialize(params, st)
      [] handler = "handleInitialized" -> handleInitialized(params, st)
      [] handler = "handleListResources" -> handleListResources(params, st)
      [] handler = "handleReadResource" -> handleReadResource(params, st)
      [] handler = "handleListTools" -> handleListTools(params, st)
      [] handler = "handleCallTool" -> handleCallTool(params, st)
      [] handler = "handleListPrompts" -> handleListPrompts(params, st)
      [] handler = "handleGetPrompt" -> handleGetPrompt(params, st)
      [] handler = "handleSetLevel" -> handleSetLevel(params, st)
      [] handler = "extReturn" -> Return([kind |-> "custom"], st)
      [] handler = "extThrow" -> Throw(Error("extension failed"), st)
      [] handler = "extReject" ->
            Throw(Rejection(createInvalidParamsError(Str("rejected"))), st)

----------------------------------------------------------------------------
(* McpServer.handleRequest *)

\* no handler: lines 291-297
NotFoundBranch(request) ==
    IF ~isNotification(request)
    THEN createJsonRpcResponse(request.id, UndefinedResult,
                               createMethodNotFoundError(request.method))
    ELSE NoResponse

\* the handler returned: lines 301-311
SuccessBranch(request, result) ==
    IF ~isNotification(request)
    THEN createJsonRpcResponse(request.id, result, Absent)
    ELSE NoResponse

\* a faulty variant: the catch block answers notifications too
CatchBranch_AnswersAll(request, thrown) ==
    createJsonRpcResponse(OrElse(request.id, Null), UndefinedResult,
        createInternalError(IF thrown.isError THEN Str(thrown.message)
                                              ELSE Str("Unknown error")))

\* the handler threw: lines 312-327
CatchBranch(request, thrown) ==
    IF ~isNotification(request)
    THEN createJsonRpcResponse(request.id, UndefinedResult,
            createInternalError(IF thrown.isError THEN Str(thrown.message)
                                                  ELSE Str("Unknown error")))
    ELSE NoResponse

\* a faulty variant: the handler is not invoked for a notification
handleRequest_SkipsNotifications(request, st) ==
    LET handler == methodHandlers[request.method.v]
    IN  IF handler = NoHandler
        THEN [handler |-> NoHandler, outcome |-> "notfound", thrown |-> Absent,
              ret |-> NotFoundBranch(request), st |-> st]
        ELSE IF isNotification(request)
        THEN [handler |-> handler, outcome |-> "return", thrown |-> Absent,
              ret |-> NoResponse, st |-> st]
        ELSE LET r == Invoke(handler, request.params, st)
             IN  IF r.kind = "return"
                 THEN [handler |-> handler, outcome |-> "return", thrown |-> Absent,
                       ret |-> SuccessBranch(request, r.value), st |-> r.st]
                 ELSE [handler |-> handler, outcome |-> "throw", thrown |-> r.thrown,
                       ret |-> CatchBranch(request, r.thrown), st |-> r.st]

\* [handler, outcome, thrown, ret, st]: the handler looked up, how the call went,
\* the value it threw, the response or null returned, the session afterwards
handleRequest(request, st) ==
    LET handler == methodHandlers[request.method.v]
    IN  IF handler = NoHandler
        THEN [handler |-> NoHandler, outcome |-> "notfound", thrown |-> Absent,
              ret |-> NotFoundBranch(request), st |-> st]
        ELSE LET r == Invoke(handler, request.params, st)
             IN  IF r.kind = "return"
                 THEN [handler |-> handler, outcome |-> "return", thrown |-> Absent,
                       ret |-> SuccessBranch(request, r.value), st |-> r.st]
                 ELSE [handler |-> handler, outcome |-> "throw", thrown |-> r.thrown,
                       ret |-> CatchBranch(request, r.thrown), st |-> r.st]

----------------------------------------------------------------------------
(* ExpressMcpServer.handleMcpRequest: POST /mcp *)

\* 'code' in validationResult: the InvalidRequest error has a code, and so has
\* a request that carries a member named code
HasCode(validationResult) ==
    validationResult.kind = "error" \/ validationResult.code # Undefined

\* a faulty variant: a rejected initialize message still marks the session
ProcessMember_RejectedInitializes(requestData, st) ==
    LET validationResult == validateJsonRpcRequest(requestData)
    IN  IF HasCode(validationResult)
        THEN [step |-> [request |-> requestData, dispatched |-> FALSE,
                        handler |-> NoHandler, outcome |-> "invalid",
                        thrown |-> Absent, ret |-> NoResponse,
                        pushed |-> formatErrorResponse(OrElse(requestData.id, Null),
                                                       validationResult),
                        initializedBefore |-> st.initialized],
              st |-> IF requestData.method = Str("initialize")
                     THEN [st EXCEPT !.initialized = TRUE] ELSE st]
        ELSE LET h == handleRequest(requestData, st)
             IN  [step |-> [request |-> requestData, dispatched |-> TRUE,
                            handler |-> h.handler, outcome |-> h.outcome,
                            thrown |-> h.thrown, ret |-> h.ret,
                            pushed |-> h.ret,
                            initializedBefore |-> st.initialized],
                  st |-> h.st]

\* the body of the for loop for one member: lines 120-146
ProcessMember(requestData, st) ==
    LET validationResult == validateJsonRpcRequest(requestData)
    IN  IF HasCode(validationResult)
        THEN [step |-> [request |-> requestData, dispatched |-> FALSE,
                        handler |-> NoHandler, outcome |-> "invalid",
                        thrown |-> Absent, ret |-> NoResponse,
                        pushed |-> formatErrorResponse(OrElse(requestData.id, Null),
                                                       validationResult),
                        initializedBefore |-> st.initialized],
              st |-> st]
        ELSE LET h == handleRequest(requestData, st)
             IN  [step |-> [request |-> requestData, dispatched |-> TRUE,
                            handler |-> h.handler, outcome |-> h.outcome,
                            thrown |-> h.thrown, ret |-> h.ret,
                            pushed |-> h.ret,
                            initializedBefore |-> st.initialized],
                  st |-> h.st]

\* the for loop: the members in order, each on the session the one before left
RECURSIVE RunMembers(_, _, _)
RunMembers(requests, st, acc) ==
    IF requests = <<>>
    THEN [steps |-> acc, st |-> st]
    ELSE LET m == ProcessMember(Head(requests), st)
         IN  RunMembers(Tail(requests), m.st, Append(acc, m.step))

\* the responses array: what the members pushed, in order
RECURSIVE Responses_Reversed(_)
\* a faulty variant: each response is put in front of the earlier ones
Responses_Reversed(ss) ==
    IF ss = <<>> THEN <<>>
    ELSE IF Head(ss).pushed = NoResponse THEN Responses_Reversed(Tail(ss))
    ELSE Responses_Reversed(Tail(ss)) \o <<Head(ss).pushed>>

RECURSIVE Responses(_)
Responses(ss) ==
    IF ss = <<>> THEN <<>>
    ELSE IF Head(ss).pushed = NoResponse THEN Responses(Tail(ss))
    ELSE <<Head(ss).pushed>> \o Responses(Tail(ss))

SerializeAll(responses) == [i \in 1..Len(responses) |-> Serialize(responses[i])]

\* lines 149-159: the answer [status, sent]
Answer(isBatch, responses) ==
    IF isBatch
    THEN [status |-> 200, sent |-> [kind |-> "array", items |-> SerializeAll(responses)]]
    ELSE IF Len(responses) > 0
    THEN [status |-> 200, sent |-> [kind |-> "single", items |-> <<Serialize(responses[1])>>]]
    ELSE [status |-> 204, sent |-> [kind |-> "none", items |-> <<>>]]

\* GET /health: lines 63-71 (the timestamp is left out)
HealthRequest == [kind |-> "health", requests |-> <<>>]
HealthAnswer(st) ==
    [status |-> 200,
     sent |-> [kind |-> "single",
               items |-> <<[kind |-> "health", status |-> "healthy",
                            server |-> serverInfo, capabilities |-> capabilities,
                            initialized |-> st.initialized]>>]]

\* a body express.json cannot parse: the middleware passes a SyntaxError to next()
MalformedBody == [kind |-> "malformed", requests |-> <<>>]

\* the global error handler, lines 172-188: status 500 and a body that is no
\* JSON-RPC envelope; the message depends on NODE_ENV
\* a faulty variant: the message of the error is sent in every posture
ErrorHandler_AlwaysDetailed(errorMessage, isDevelopment) ==
    [status |-> 500,
     sent |-> [kind |-> "single",
               items |-> <<[kind |-> "plain", error |-> "Internal Server Error",
                            message |-> errorMessage]>>]]

ErrorHandler(errorMessage, isDevelopment) ==
    [status |-> 500,
     sent |-> [kind |-> "single",
               items |-> <<[kind |-> "plain", error |-> "Internal Server Error",
                            message |-> IF isDevelopment THEN errorMessage
                                        ELSE "An unexpected error occurred"]>>]]

----------------------------------------------------------------------------
(* MCPServer (stdio): construction and registries.  A registry is a Map: its *)
(* entries [key, value] in insertion order.                                 *)

StdioServerInfo == [name |-> "mcp-server", version |-> "1.0.0"]

StdioCapabilities ==
    [logging |-> "{}",
     resources |-> [subscribe |-> TRUE, listChanged |-> TRUE],
     tools |-> [listChanged |-> TRUE],
     prompts |-> [listChanged |-> TRUE]]

\* Map.has(key)
MapHas(map, key) == \E i \in 1..Len(map) : map[i].key = key

\* a faulty variant: only the entry added first is found
MapGet_FirstEntry(map, key) ==
    IF map # <<>> /\ map[1].key = key
    THEN map[1].value
    ELSE Absent

\* Map.get(key): the value, or Absent for undefined
MapGet(map, key) ==
    IF MapHas(map, key)
    THEN map[CHOOSE i \in 1..Len(map) : map[i].key = key].value
    ELSE Absent

\* a faulty variant: the entry is added even if the key is present
MapSet_AlwaysAppends(map, key, value) ==
    Append(map, [key |-> key, value |-> value])

\* a faulty variant: a present key is deleted and added again at the end
MapSet_MovesToEnd(map, key, value) ==
    LET OtherKey(e) == e.key # key
    IN  Append(SelectSeq(map, OtherKey), [key |-> key, value |-> value])

\* Map.set(key, value): a present key keeps its place
MapSet(map, key, value) ==
    IF MapHas(map, key)
    THEN [i \in 1..Len(map) |->
            IF map[i].key = key THEN [key |-> key, value |-> value] ELSE map[i]]
    ELSE Append(map, [key |-> key, value |-> value])

\* Array.from(map.values())
MapValues(map) == [i \in 1..Len(map) |-> map[i].value]

Resource(uri, name, description, mimeType) ==
    [uri |-> uri, name |-> name, description |-> description, mimeType |-> mimeType]

Tool(name, description, inputSchema) ==
    [name |-> name, description |-> description, inputSchema |-> inputSchema]

Prompt(name, description, arguments) ==
    [name |-> name, description |-> description, arguments |-> arguments]

registerResource(map, resource) == MapSet(map, Str(resource.uri), resource)
registerTool(map, tool) == MapSet(map, Str(tool.name), tool)
registerPrompt(map, prompt) == MapSet(map, Str(prompt.name), prompt)

\* a call of registerResource, registerTool or registerPrompt
RegisterCall(kind, value) == [kind |-> kind, value |-> value]

\* StdioTransport.setupServer: the register* calls of the constructor, in order
SetupCalls ==
    <<RegisterCall("resource", Resource("file://example.txt", "Example Text File",
                                        "A sample text resource", "text/plain")),
      RegisterCall("resource", Resource("config://server-info", "Server Information",
                                        "Information about this MCP server",
                                        "application/json")),
      RegisterCall("tool", Tool("echo", "Echo back the provided message", "{message}")),
      RegisterCall("tool", Tool("calculate", "Perform basic mathematical operations",
                                "{operation,a,b}")),
      RegisterCall("tool", Tool("timestamp", "Get the current timestamp", "{}")),
      RegisterCall("prompt", Prompt("summarize", "Generate a summary of the provided content",
                                    <<"content", "length">>)),
      RegisterCall("prompt", Prompt("analyze", "Perform analysis on the provided data",
                                    <<"data", "type">>))>>

\* the registries after setupServer
SetupResources ==
    registerResource(registerResource(<<>>, SetupCalls[1].value), SetupCalls[2].value)

SetupTools ==
    registerTool(registerTool(registerTool(<<>>, SetupCalls[3].value),
                              SetupCalls[4].value),
                 SetupCalls[5].value)

SetupPrompts ==
    registerPrompt(registerPrompt(<<>>, SetupCalls[6].value), SetupCalls[7].value)

\* the descriptors registered after setupServer
ExtraResources ==
    {Resource("file://example.txt", "Example Text File", "replaced", "text/plain"),
     Resource("memo://notes", "Notes", "added", "text/plain")}

ExtraTools ==
    {Tool("echo", "replaced", "{message}"), Tool("reverse", "added", "{text}")}

ExtraPrompts ==
    {Prompt("summarize", "replaced", <<"content">>), Prompt("translate", "added", <<"text">>)}

----------------------------------------------------------------------------
(* MCPServer (stdio): the operations.  st = [initialized] is the session.   *)

\* createError: a plain object, not an Error
createError(code, message, data) == createJsonRpcError(code, message, data)

\* a faulty variant: the flag is set before the version is validated
initialize_SetsFlagFirst(params, st) ==
    IF st.initialized
    THEN Throw(Rejection(createError(InvalidRequest, "Already initialized", Undefined)), st)
    ELSE IF params.t = "undefined"
    THEN Throw(Error("Cannot read properties of undefined (reading 'protocolVersion')"), st)
    ELSE IF params.protocolVersion # Str(ProtocolVersion)
    THEN Throw(Rejection(createError(InvalidParams,
                    "Unsupported protocol version: " \o Template(params.protocolVersion),
                    Undefined)), [st EXCEPT !.initialized = TRUE])
    ELSE Return(InitializeResult(sCapabilities, sServerInfo),
                [st EXCEPT !.initialized = TRUE])

\* a faulty variant: the flag is not set by the time the next call checks it
initialize_LeavesFlag(params, st) ==
    IF st.initialized
    THEN Throw(Rejection(createError(InvalidRequest, "Already initialized", Undefined)), st)
    ELSE IF params.t = "undefined"
    THEN Throw(Error("Cannot read properties of undefined (reading 'protocolVersion')"), st)
    ELSE IF params.protocolVersion # Str(ProtocolVersion)
    THEN Throw(Rejection(createError(InvalidParams,
                    "Unsupported protocol version: " \o Template(params.protocolVersion),
                    Undefined)), st)
    ELSE Return(InitializeResult(sCapabilities, sServerInfo), st)

initialize(params, st) ==
    IF st.initialized
    THEN Throw(Rejection(createError(InvalidRequest, "Already initialized", Undefined)), st)
    ELSE IF params.t = "undefined"
    THEN Throw(Error("Cannot read properties of undefined (reading 'protocolVersion')"), st)
    ELSE IF params.protocolVersion # Str(ProtocolVersion)
    THEN Throw(Rejection(createError(InvalidParams,
                    "Unsupported protocol version: " \o Template(params.protocolVersion),
                    Undefined)), st)
    ELSE Return(InitializeResult(sCapabilities, sServerInfo),
                [st EXCEPT !.initialized = TRUE])

listPrompts(st) == Return([kind |-> "prompts", prompts |-> MapValues(prompts)], st)

getPrompt(params, st) ==
    IF params.t = "undefined"
    THEN Throw(Error("Cannot read properties of undefined (reading 'name')"), st)
    ELSE LET prompt == MapGet(prompts, params.name)
         IN  IF prompt = Absent
             THEN Throw(Rejection(createError(InvalidParams,
                            "Prompt not found: " \o Template(params.name), Undefined)), st)
             ELSE Return([kind |-> "prompt", description |-> prompt.description,
                          messages |-> <<[role |-> "user", type |-> "text",
                                          name |-> params.name,
                                          arguments |-> params.arguments]>>], st)

listResources(st) ==
    Return([kind |-> "resources", resources |-> MapValues(resources)], st)

readResource(params, st) ==
    IF params.t = "undefined"
    THEN Throw(Error("Cannot read properties of undefined (reading 'uri')"), st)
    ELSE LET resource == MapGet(resources, params.uri)
         IN  IF resource = Absent
             THEN Throw(Rejection(createError(InvalidParams,
                            "Resource not found: " \o Template(params.uri), Undefined)), st)
             ELSE Return([kind |-> "contents",
                          contents |-> <<[type |-> "text", name |-> resource.name,
                                          uri |-> resource.uri,
                                          description |-> resource.description]>>], st)

listTools(st) == Return([kind |-> "tools", tools |-> MapValues(tools)], st)

Digits == <<"0", "1", "2", "3", "4", "5", "6", "7", "8", "9">>

\* Number(x): NaN, or the integer
Number(x) ==
    CASE x.t \in {"number", "string"} /\ (\E i \in 1..Len(Digits) : Digits[i] = x.v) ->
            [nan |-> FALSE, n |-> (CHOOSE i \in 1..Len(Digits) : Digits[i] = x.v) - 1]
      [] x.t = "null" \/ x = Str("") \/ x = Bool("false") -> [nan |-> FALSE, n |-> 0]
      [] x = Bool("true") -> [nan |-> FALSE, n |-> 1]
      [] OTHER -> [nan |-> TRUE, n |-> 0]

\* `${n}` of a number
RECURSIVE NumText(_)
NumText(x) ==
    IF x.nan THEN "NaN"
    ELSE IF x.n < 0 THEN "-" \o NumText([x EXCEPT !.n = -x.n])
    ELSE IF x.n < Len(Digits) THEN Digits[x.n + 1]
    ELSE NumText([x EXCEPT !.n = x.n \div Len(Digits)]) \o Digits[(x.n % Len(Digits)) + 1]

\* a op b on numbers; the quotient is taken where it is an integer
Arith(op, x, y) ==
    IF x.nan \/ y.nan THEN [nan |-> TRUE, n |-> 0]
    ELSE CASE op = "+" -> [nan |-> FALSE, n |-> x.n + y.n]
           [] op = "-" -> [nan |-> FALSE, n |-> x.n - y.n]
           [] op = "*" -> [nan |-> FALSE, n |-> x.n * y.n]
           [] op = "/" -> [nan |-> FALSE, n |-> x.n \div y.n]

Calc(op, numA, numB) ==
    NumText(numA) \o " " \o op \o " " \o NumText(numB) \o " = "
        \o NumText(Arith(op, numA, numB))

\* the text executeTool resolves with
executeTool(toolName, args) ==
    CASE toolName = "echo" ->
            "Echo: " \o Template(OrElse(args.message, Str("No message provided")))
      [] toolName = "calculate" ->
            LET numA == Number(args.a)
                numB == Number(args.b)
            IN  CASE args.operation = Str("add") -> Calc("+", numA, numB)
                  [] args.operation = Str("subtract") -> Calc("-", numA, numB)
                  [] args.operation = Str("multiply") -> Calc("*", numA, numB)
                  [] args.operation = Str("divide") ->
                        IF numB.nan \/ numB.n # 0 THEN Calc("/", numA, numB)
                        ELSE "Error: Division by zero"
                  [] OTHER -> "Error: Unknown operation"
      [] toolName = "timestamp" -> "Current timestamp: <now>"
      [] OTHER -> "Tool " \o toolName \o " executed with arguments"

callTool(params, st) ==
    IF params.t = "undefined"
    THEN Throw(Error("Cannot read properties of undefined (reading 'name')"), st)
    ELSE LET tool == MapGet(tools, params.name)
         IN  IF tool = Absent
             THEN Throw(Rejection(createError(InvalidParams,
                            "Tool not found: " \o Template(params.name), Undefined)), st)
             ELSE Return([kind |-> "toolResult",
                          content |-> <<[type |-> "text",
                                         text |-> Str(executeTool(params.name.v,
                                                                  params.arguments))]>>],
                         st)

\* the switch of handleRequest: which case a method selects
Case(method) ==
    IF method.t = "string"
          /\ method.v \in {"initialize", "notifications/initialized", "prompts/list",
                           "prompts/get", "resources/list", "resources/read",
                           "tools/list", "tools/call"}
    THEN method.v
    ELSE "default"

\* the catch of handleRequest: lines 254-260.  The thrown value is the error
\* only when it is an Error that has a member code
CatchResponse(request, thrown) ==
    [kind |-> "response", id |-> request.id, result |-> Absent,
     error |-> IF thrown.isError /\ thrown.hasCode
               THEN [kind |-> "thrown", value |-> thrown]
               ELSE createError(InternalError,
                                IF thrown.isError THEN thrown.message
                                                  ELSE "Internal error",
                                Undefined)]

\* MCPServer.handleRequest: [case, rejected, thrown, response, st].  A request that is the
\* JSON value null makes the try block and then the catch block throw, so the
\* promise rejects
MCPServer_handleRequest(request, st) ==
    IF request.shape = "null"
    THEN [case |-> "none", rejected |-> TRUE, thrown |-> Absent,
          response |-> NoResponse, st |-> st]
    ELSE LET c == Case(request.method)
             r == CASE c = "initialize" -> initialize(request.params, st)
                    [] c = "notifications/initialized" -> Return([kind |-> "nullResult"], st)
                    [] c = "prompts/list" -> listPrompts(st)
                    [] c = "prompts/get" -> getPrompt(request.params, st)
                    [] c = "resources/list" -> listResources(st)
                    [] c = "resources/read" -> readResource(request.params, st)
                    [] c = "tools/list" -> listTools(st)
                    [] c = "tools/call" -> callTool(request.params, st)
                    [] OTHER ->
                        Throw(Rejection(createError(MethodNotFound,
                                "Method not found", Undefined)), st)
         IN  [case |-> c, rejected |-> FALSE, thrown |-> r.thrown,
              response |-> IF r.kind = "return"
                           THEN [kind |-> "response", id |-> request.id,
                                 result |-> r.value, error |-> Absent]
                           ELSE CatchResponse(request, r.thrown),
              st |-> r.st]

----------------------------------------------------------------------------
(* StdioTransport: the line handler *)

\* an input line: blank, text that is no JSON, or the JSON text of a value
BlankLine == [kind |-> "blank", value |-> NonObject("null")]
GarbageLine == [kind |-> "garbage", value |-> NonObject("null")]
JsonLine(value) == [kind |-> "json", value |-> value]
NoLine == [kind |-> "none", value |-> NonObject("null")]

\* a faulty variant: the parse failure reported as an invalid request
ParseErrorResponse_AsInvalidRequest(data) ==
    [kind |-> "response", id |-> Null, result |-> Absent,
     error |-> createJsonRpcError(InvalidRequest, "Invalid Request", data)]

\* the catch of the line handler: lines 265-277
ParseErrorResponse(data) ==
    [kind |-> "response", id |-> Null, result |-> Absent,
     error |-> createJsonRpcError(ParseError, "Parse error", data)]

NoCall == [called |-> FALSE, request |-> NonObject("null"), case |-> "none",
           rejected |-> FALSE, thrown |-> Absent, response |-> NoResponse, initializedBefore |-> FALSE]

\* a faulty variant: the response is written only when the id is not null
LineHandler_SkipsNullId(l, st) ==
    CASE l.kind = "blank" -> [call |-> NoCall, written |-> <<>>, st |-> st]
      [] l.kind = "garbage" ->
            [call |-> NoCall,
             written |-> <<ParseErrorResponse(Str("Unexpected token in JSON"))>>,
             st |-> st]
      [] OTHER ->
            LET request == l.value
                h == MCPServer_handleRequest(request, st)
                c == [called |-> TRUE, request |-> request, case |-> h.case,
                      rejected |-> h.rejected, thrown |-> h.thrown,
                      response |-> h.response,
                      initializedBefore |-> st.initialized]
            IN  IF h.rejected
                THEN [call |-> c,
                      written |-> <<ParseErrorResponse(
                            Str("Cannot read properties of null (reading 'id')"))>>,
                      st |-> h.st]
                ELSE IF request.id \notin {Undefined, Null}
                THEN [call |-> c, written |-> <<Serialize(h.response)>>, st |-> h.st]
                ELSE [call |-> c, written |-> <<>>, st |-> h.st]

\* [call, written, st]: lines 253-278
LineHandler(l, st) ==
    CASE l.kind = "blank" -> [call |-> NoCall, written |-> <<>>, st |-> st]
      [] l.kind = "garbage" ->
            [call |-> NoCall,
             written |-> <<ParseErrorResponse(Str("Unexpected token in JSON"))>>,
             st |-> st]
      [] OTHER ->
            LET request == l.value
                h == MCPServer_handleRequest(request, st)
                c == [called |-> TRUE, request |-> request, case |-> h.case,
                      rejected |-> h.rejected, thrown |-> h.thrown,
                      response |-> h.response,
                      initializedBefore |-> st.initialized]
            IN  IF h.rejected
                THEN [call |-> c,
                      written |-> <<ParseErrorResponse(
                            Str("Cannot read properties of null (reading 'id')"))>>,
                      st |-> h.st]
                ELSE IF request.id # Undefined
                THEN [call |-> c, written |-> <<Serialize(h.response)>>, st |-> h.st]
                ELSE [call |-> c, written |-> <<>>, st |-> h.st]

----------------------------------------------------------------------------
(* The inputs of the model *)

V2 == Str("2.0")

ExpressParams(m) ==
    CASE m = "initialize" ->
            {NoParams, InitializeParams(Str(ProtocolVersion)), InitializeParams(Str("1.0"))}
      [] m = "resources/read" ->
            {NoParams, UriParams(Str("file:///example.txt")), UriParams(Str("file:///missing"))}
      [] m = "tools/call" ->
            {NoParams,
             NameParams(Undefined, NoArgs),
             NameParams(Str("echo"), Args(Str("Hello, World!"), Undefined, Undefined)),
             NameParams(Str("echo"), Args(Str("0"), Undefined, Undefined)),
             NameParams(Str("echo"), Args(Str(""), Undefined, Undefined)),
             NameParams(Str("echo"), NoArgs),
             NameParams(Str("calculate"), Args(Undefined, Str("2 + 3"), Undefined)),
             NameParams(Str("calculate"), Args(Undefined, Str("1/0"), Undefined)),
             NameParams(Str("nope"), NoArgs)}
      [] m = "prompts/get" ->
            {NoParams, NameParams(Str("summarize"), NoArgs), NameParams(Str("nope"), NoArgs)}
      [] m = "logging/setLevel" -> {NoParams, LevelParams(Str("debug"))}
      [] OTHER -> {NoParams}

StdioParams(m) ==
    CASE m = "initialize" ->
            {NoParams, InitializeParams(Str(ProtocolVersion)), InitializeParams(Str("1.0"))}
      [] m = "resources/read" ->
            {NoParams, UriParams(Str("file://example.txt")), UriParams(Str("memo://notes")),
             UriParams(Str("file:///missing"))}
      [] m = "tools/call" ->
            {NoParams,
             NameParams(Undefined, NoArgs),
             NameParams(Str("echo"), Args(Undefined, Undefined, Str("hi"))),
             NameParams(Str("calculate"), CalcArgs(Str("multiply"), Num("8"), Num("9"))),
             NameParams(Str("calculate"), CalcArgs(Str("divide"), Num("6"), Num("0"))),
             NameParams(Str("calculate"), CalcArgs(Str("power"), Num("2"), Num("3"))),
             NameParams(Str("reverse"), NoArgs),
             NameParams(Str("nope"), NoArgs)}
      [] m = "prompts/get" ->
            {NoParams, NameParams(Str("summarize"), NoArgs), NameParams(Str("translate"), NoArgs),
             NameParams(Str("nope"), NoArgs)}
      [] OTHER -> {NoParams}

\* structurally invalid values: no or a wrong jsonrpc, no or a non-string method,
\* an id of a disallowed type, and values that are no objects
InvalidValues ==
    {Message(j, Num("1"), Str("initialize"), InitializeParams(Str(ProtocolVersion)), Undefined) :
        j \in {Undefined, Str("1.0"), Num("2")}}
    \cup {Message(Undefined, i, Str("tools/list"), NoParams, Undefined) :
            i \in {Undefined, Num("0")}}
    \cup {Message(V2, Num("1"), m, NoParams, Undefined) : m \in {Undefined, Num("5")}}
    \cup {Message(V2, i, Str("tools/list"), NoParams, Undefined) :
            i \in {Bool("true"), Obj("{}")}}

\* valid requests and notifications
CoreMessages(params(_)) ==
    {Message(V2, i, Str(m), p, Undefined) :
        <<i, m, p>> \in UNION {{<<i, m, p>> : p \in params(m), i \in {Undefined, Num("1")}} :
                                m \in MethodNames}}

\* the other ids a request may carry, and a request and a notification that
\* carry a member named code
IdMessages ==
    {Message(V2, i, Str(m), NoParams, Undefined) :
        i \in {Null, Num("0"), Str(""), Str("a")}, m \in {"tools/list", "unknown/method"}}
    \cup {Message(V2, i, Str("tools/list"), NoParams, Num("7")) : i \in {Num("1"), Undefined}}

\* the members of a batch body
BatchMembers ==
    {Message(V2, Num("1"), Str("initialize"), InitializeParams(Str(ProtocolVersion)), Undefined),
     Message(V2, Undefined, Str("tools/list"), NoParams, Undefined),
     Message(V2, Str("a"), Str("tools/list"), NoParams, Undefined),
     Message(V2, Num("1"), Str("unknown/method"), NoParams, Undefined),
     Message(Undefined, Num("1"), Str("initialize"), NoParams, Undefined),
     Message(V2, Undefined, Str("tools/list"), NoParams, Num("7")),
     NonObject("null")}

SeqsUpTo(S, n) == UNION {[1..k -> S] : k \in 0..n}

\* req.body: an object, or an array of JSON values
Bodies ==
    {[kind |-> "single", requests |-> <<m>>] :
        m \in CoreMessages(ExpressParams) \cup IdMessages \cup InvalidValues}
    \cup {[kind |-> "batch", requests |-> b] : b \in SeqsUpTo(BatchMembers, MaxBatch)}

\* the input lines
Lines ==
    {BlankLine, GarbageLine}
    \cup {JsonLine(v) : v \in CoreMessages(StdioParams) \cup IdMessages \cup InvalidValues
                              \cup {NonObject("null"), NonObject("number")}}

----------------------------------------------------------------------------
(* The state machine *)

NoBody == [kind |-> "none", requests |-> <<>>]
NoRegisterMethod == [method |-> "", handler |-> NoHandler]
NoneSent == [kind |-> "none", items |-> <<>>]

Init ==
    /\ program \in {"express", "stdio"}
    /\ development \in IF program = "express" THEN BOOLEAN ELSE {FALSE}
    \* new McpServer()
    /\ initialized = FALSE
    /\ methodHandlers = DefaultHandlers
    /\ capabilities = ExpressCapabilities
    /\ serverInfo = ExpressServerInfo
    /\ logLevel = Str("info")
    /\ registerCalls = 0
    /\ lastRegisterMethod = NoRegisterMethod
    /\ httpBody = NoBody
    /\ httpStatus = 0
    /\ httpSent = NoneSent
    /\ steps = <<>>
    \* new StdioTransport(): new MCPServer(), then setupServer()
    /\ sInitialized = FALSE
    /\ sCapabilities = StdioCapabilities
    /\ sServerInfo = StdioServerInfo
    /\ resources = SetupResources
    /\ tools = SetupTools
    /\ prompts = SetupPrompts
    /\ registrations = 0
    /\ registered = SetupCalls
    /\ line = NoLine
    /\ call = NoCall
    /\ written = <<>>
    \* nothing in flight
    /\ taken = 0
    /\ inFlight = <<>>
    /\ reads = <<>>
    /\ queue = <<>>
    /\ stdout = <<>>
    /\ draining = FALSE

\* POST /mcp with the parsed body
Post(body) ==
    /\ program = "express"
    /\ httpBody = NoBody
    /\ LET run == RunMembers(body.requests,
                             [initialized |-> initialized, logLevel |-> logLevel], <<>>)
           answer == Answer(body.kind = "batch", Responses(run.steps))
       IN  /\ initialized' = run.st.initialized
           /\ logLevel' = run.st.logLevel
           /\ httpBody' = body
           /\ httpStatus' = answer.status
           /\ httpSent' = answer.sent
           /\ steps' = run.steps
    /\ UNCHANGED <<program, development, flightVars, methodHandlers, capabilities, serverInfo, registerCalls,
                   lastRegisterMethod, stdioVars>>

\* POST /mcp with a body that is no JSON: express.json fails before the route
\* is reached, and the error goes to the global error handler
PostMalformed ==
    /\ program = "express"
    /\ httpBody = NoBody
    /\ LET answer == ErrorHandler("Unexpected token", development)
       IN  /\ httpBody' = MalformedBody
           /\ httpStatus' = answer.status
           /\ httpSent' = answer.sent
           /\ steps' = <<>>
    /\ UNCHANGED <<program, development, flightVars, initialized, methodHandlers, capabilities, serverInfo, logLevel,
                   registerCalls, lastRegisterMethod, stdioVars>>

\* GET /health
GetHealth ==
    /\ program = "express"
    /\ httpBody = NoBody
    /\ LET answer == HealthAnswer([initialized |-> initialized])
       IN  /\ httpBody' = HealthRequest
           /\ httpStatus' = answer.status
           /\ httpSent' = answer.sent
           /\ steps' = <<>>
    /\ UNCHANGED <<program, development, flightVars, initialized, methodHandlers, capabilities, serverInfo, logLevel,
                   registerCalls, lastRegisterMethod, stdioVars>>

\* the answer has been sent: the exchange is over
EndPost ==
    /\ program = "express"
    /\ httpBody # NoBody
    /\ httpBody' = NoBody
    /\ httpStatus' = 0
    /\ httpSent' = NoneSent
    /\ steps' = <<>>
    /\ UNCHANGED <<program, development, flightVars, initialized, methodHandlers, capabilities, serverInfo, logLevel,
                   registerCalls, lastRegisterMethod, stdioVars>>

\* a faulty variant: a method that has a handler keeps it
RegisterMethod_KeepsFirst(method, handler) ==
    /\ program = "express"
    /\ httpBody = NoBody
    /\ registerCalls < MaxRegisterCalls
    /\ registerCalls' = registerCalls + 1
    /\ lastRegisterMethod' = [method |-> method, handler |-> handler]
    /\ methodHandlers' = IF methodHandlers[method] = NoHandler
                         THEN [methodHandlers EXCEPT ![method] = handler]
                         ELSE methodHandlers
    /\ UNCHANGED <<program, development, flightVars, initialized, capabilities, serverInfo, logLevel, httpBody,
                   httpStatus, httpSent, steps, stdioVars>>

\* McpServer.registerMethod(method, handler), between two exchanges
RegisterMethod(method, handler) ==
    /\ program = "express"
    /\ httpBody = NoBody
    /\ registerCalls < MaxRegisterCalls
    /\ registerCalls' = registerCalls + 1
    /\ lastRegisterMethod' = [method |-> method, handler |-> handler]
    /\ methodHandlers' = [methodHandlers EXCEPT ![method] = handler]
    /\ UNCHANGED <<program, development, flightVars, initialized, capabilities, serverInfo, logLevel, httpBody,
                   httpStatus, httpSent, steps, stdioVars>>

\* a line arrives on stdin
Line(l) ==
    /\ program = "stdio"
    /\ line = NoLine
    /\ LET h == LineHandler(l, [initialized |-> sInitialized])
       IN  /\ sInitialized' = h.st.initialized
           /\ line' = l
           /\ call' = h.call
           /\ written' = h.written
    /\ UNCHANGED <<program, development, flightVars, httpVars, sCapabilities, sServerInfo, resources, tools, prompts,
                   registrations, registered>>

\* the line handler has returned
EndLine ==
    /\ program = "stdio"
    /\ line # NoLine
    /\ line' = NoLine
    /\ call' = NoCall
    /\ written' = <<>>
    /\ UNCHANGED <<program, development, flightVars, httpVars, sInitialized, sCapabilities, sServerInfo, resources,
                   tools, prompts, registrations, registered>>

\* MCPServer.registerResource(resource)
RegisterResource(resource) ==
    /\ program = "stdio"
    /\ line = NoLine
    /\ registrations < MaxRegistrations
    /\ registrations' = registrations + 1
    /\ registered' = Append(registered, RegisterCall("resource", resource))
    /\ resources' = registerResource(resources, resource)
    /\ UNCHANGED <<program, development, flightVars, httpVars, sInitialized, sCapabilities, sServerInfo, tools,
                   prompts, line, call, written>>

\* MCPServer.registerTool(tool)
RegisterTool(tool) ==
    /\ program = "stdio"
    /\ line = NoLine
    /\ registrations < MaxRegistrations
    /\ registrations' = registrations + 1
    /\ registered' = Append(registered, RegisterCall("tool", tool))
    /\ tools' = registerTool(tools, tool)
    /\ UNCHANGED <<program, development, flightVars, httpVars, sInitialized, sCapabilities, sServerInfo, resources,
                   prompts, line, call, written>>

\* MCPServer.registerPrompt(prompt)
RegisterPrompt(prompt) ==
    /\ program = "stdio"
    /\ line = NoLine
    /\ registrations < MaxRegistrations
    /\ registrations' = registrations + 1
    /\ registered' = Append(registered, RegisterCall("prompt", prompt))
    /\ prompts' = registerPrompt(prompts, prompt)
    /\ UNCHANGED <<program, development, flightVars, httpVars, sInitialized, sCapabilities, sServerInfo, resources,
                   tools, line, call, written>>

Next ==
    \/ \E body \in Bodies : Post(body)
    \/ PostMalformed
    \/ GetHealth
    \/ EndPost
    \/ \E method \in RegMethods, handler \in ExtHandlers : RegisterMethod(method, handler)
    \/ \E l \in Lines : Line(l)
    \/ EndLine
    \/ \E resource \in ExtraResources : RegisterResource(resource)
    \/ \E tool \in ExtraTools : RegisterTool(tool)
    \/ \E prompt \in ExtraPrompts : RegisterPrompt(prompt)

Spec == Init /\ [][Next]_vars

----------------------------------------------------------------------------
(* Properties *)

\* step i of the POST just answered is a call of McpServer.handleRequest
Dispatched(i) == steps[i].dispatched

\* a response that carries an error with the given code and no result
IsErrorWith(response, code) ==
    /\ response.kind = "response"
    /\ response.result = Absent
    /\ response.error.kind = "error"
    /\ response.error.code = code

\* a response that carries a result and no error
IsSuccess(response) ==
    /\ response.kind = "response"
    /\ response.error = Absent
    /\ response.result # Absent

\* the value is no JSON-RPC message: it is no object, its jsonrpc is missing or
\* not "2.0", its method is missing or no string, or its id has a disallowed type
StructurallyInvalid(value) ==
    \/ value.shape # "object"
    \/ value.jsonrpc # Str("2.0")
    \/ value.method.t # "string"
    \/ value.id.t \notin {"undefined", "null", "string", "number"}

\* C1: McpServer.handleRequest answers every request that carries an id and whose
\* method has no handler with an error response of code -32601 and the request's
\* id, whatever the session state; a single POST of it is answered with just that.
C1_UnknownMethodHttp ==
    \A i \in 1..Len(steps) :
        (Dispatched(i) /\ steps[i].request.id # Undefined
            /\ methodHandlers[steps[i].request.method.v] = NoHandler)
        => /\ IsErrorWith(steps[i].ret, -32601)
           /\ steps[i].ret.id = steps[i].request.id
           /\ httpBody.kind = "single"
                => (httpStatus = 200 /\ httpSent.items = <<steps[i].ret>>)

\* C1 happens: an unknown method is requested in an initialized session
C1_Witness ==
    \E i \in 1..Len(steps) :
        /\ Dispatched(i) /\ steps[i].request.id # Undefined
        /\ steps[i].request.method = Str("unknown/method")
        /\ methodHandlers["unknown/method"] = NoHandler
        /\ steps[i].initializedBefore

\* C2: MCPServer.handleRequest answers a request that has an id and a method
\* outside its switch with an error of code -32601.
C2_UnknownMethodStdio ==
    (call.called /\ call.request.shape = "object" /\ call.request.id # Undefined
        /\ call.request.method.t = "string" /\ Case(call.request.method) = "default")
    => IsErrorWith(call.response, -32601)

\* C3: McpServer.handleRequest returns null for every notification (no id),
\* whether no handler is registered, the handler returns or the handler throws.
C3_NotificationNoResponse ==
    \A i \in 1..Len(steps) :
        (Dispatched(i) /\ steps[i].request.id = Undefined)
        => /\ steps[i].outcome \in {"notfound", "return", "throw"}
           /\ steps[i].ret = NoResponse

\* C3 happens: the handler of a notification throws
C3_Witness ==
    \E i \in 1..Len(steps) :
        /\ Dispatched(i) /\ steps[i].request.id = Undefined
        /\ steps[i].outcome = "throw"

\* step i of the POST just answered is an initialize call that returned
InitializeReturned(ss, i) ==
    /\ ss[i].dispatched
    /\ ss[i].request.method = Str("initialize")
    /\ ss[i].outcome = "return"

\* C4: the initialized flag of both servers is false at construction, becomes
\* true only in a step in which an initialize call succeeds, and never becomes
\* false again.
C4_InitializedLifecycle ==
    /\ (~initialized /\ ~sInitialized)
    /\ [][/\ initialized' # initialized =>
                /\ ~initialized /\ initialized'
                /\ \E i \in 1..Len(steps') : InitializeReturned(steps', i)
          /\ sInitialized' # sInitialized =>
                /\ ~sInitialized /\ sInitialized'
                /\ call'.called /\ call'.request.method = Str("initialize")
                /\ IsSuccess(call'.response)]_vars

\* C4 happens: a session that was initialized by a successful call and has
\* handled another line since
C4_Witness ==
    /\ sInitialized
    /\ call.called /\ call.initializedBefore

\* the methods other than initialize that both servers answer
UseMethods ==
    {"resources/list", "resources/read", "tools/list", "tools/call", "prompts/list",
     "prompts/get", "logging/setLevel"}

\* C5: while the session is not initialized, a request for a method other than
\* initialize is not answered with a success result.
C5_InitializeBeforeUse ==
    /\ \A i \in 1..Len(steps) :
          (Dispatched(i) /\ ~steps[i].initializedBefore /\ steps[i].request.id # Undefined
              /\ steps[i].request.method.v \in UseMethods)
          => ~IsSuccess(steps[i].ret)
    /\ (call.called /\ ~call.initializedBefore /\ call.request.id # Undefined
            /\ call.request.method.t = "string" /\ call.request.method.v \in UseMethods)
       => ~IsSuccess(call.response)

\* params name a protocol version, and not the supported one
UnsupportedVersion(params) ==
    /\ params.t = "object"
    /\ params.protocolVersion.t = "string"
    /\ params.protocolVersion # Str("2024-11-05")

\* C6: an initialize request with an unsupported protocolVersion, made to a
\* session that is not initialized, is answered with an error of code -32602 and
\* leaves the session uninitialized.
C6_UnsupportedVersionRejected ==
    /\ (httpBody.kind = "single" /\ Dispatched(1) /\ ~steps[1].initializedBefore
            /\ steps[1].request.id # Undefined
            /\ steps[1].request.method = Str("initialize")
            /\ UnsupportedVersion(steps[1].request.params))
       => (IsErrorWith(steps[1].ret, -32602) /\ ~initialized)
    /\ (call.called /\ ~call.initializedBefore /\ call.request.shape = "object"
            /\ call.request.id # Undefined
            /\ call.request.method = Str("initialize")
            /\ UnsupportedVersion(call.request.params))
       => (IsErrorWith(call.response, -32602) /\ ~sInitialized)

\* C7: MCPServer answers an initialize request made to an initialized session
\* with an error of code -32600, and the session stays initialized.
C7_DoubleInitializeStdio ==
    (call.called /\ call.initializedBefore /\ call.request.shape = "object"
        /\ call.request.id # Undefined /\ call.request.method = Str("initialize"))
    => (IsErrorWith(call.response, -32600) /\ sInitialized)

\* C8: McpServer's initialize handler answers every initialize request, the
\* first and each later one, with the same success result, made of the protocol
\* version and the capabilities and serverInfo of construction, and the session is
\* initialized afterwards.
C8_InitializeIdempotentHttp ==
    \A i \in 1..Len(steps) :
        (Dispatched(i) /\ steps[i].request.id # Undefined
            /\ steps[i].request.method = Str("initialize")
            /\ methodHandlers["initialize"] = "handleInitialize")
        => /\ IsSuccess(steps[i].ret)
           /\ steps[i].ret.id = steps[i].request.id
           /\ steps[i].ret.result =
                [kind |-> "initialize", protocolVersion |-> "2024-11-05",
                 capabilities |-> ExpressCapabilities, serverInfo |-> ExpressServerInfo]
           /\ initialized

\* C8 happens: initialize is requested in a session that is initialized already
C8_Witness ==
    \E i \in 1..Len(steps) :
        /\ Dispatched(i) /\ steps[i].request.id # Undefined
        /\ steps[i].request.method = Str("initialize")
        /\ steps[i].handler = "handleInitialize"
        /\ steps[i].initializedBefore

\* the number of responses the members 1..i of the POST just answered pushed
PushedUpTo(i) == Cardinality({j \in 1..i : steps[j].pushed # NoResponse})

\* C9: every structurally invalid member of a POST /mcp body gets an error
\* response of code -32600 in an answer of status 200, and no handler is invoked
\* for it.
C9_InvalidRequestHttp ==
    \A i \in 1..Len(httpBody.requests) :
        StructurallyInvalid(httpBody.requests[i])
        => /\ Len(steps) = Len(httpBody.requests)
           /\ steps[i].request = httpBody.requests[i]
           /\ ~steps[i].dispatched /\ steps[i].handler = NoHandler
           /\ steps[i].outcome = "invalid"
           /\ httpStatus = 200
           /\ PushedUpTo(i) \in 1..Len(httpSent.items)
           /\ IsErrorWith(httpSent.items[PushedUpTo(i)], -32600)
           /\ httpSent.items[PushedUpTo(i)] = Serialize(steps[i].pushed)

\* C9 happens: a batch whose second member is an initialize message without the
\* jsonrpc member, after a valid first member
C9_Witness ==
    /\ httpBody.kind = "batch" /\ Len(httpBody.requests) = 2
    /\ ~StructurallyInvalid(httpBody.requests[1])
    /\ httpBody.requests[2].shape = "object"
    /\ httpBody.requests[2].jsonrpc = Undefined
    /\ httpBody.requests[2].method = Str("initialize")

\* C10: every input line that is JSON but no structurally valid message gets
\* exactly one line written, an error response of code -32600, and is not
\* dispatched to a handler.
C10_InvalidRequestStdio ==
    (line.kind = "json" /\ StructurallyInvalid(line.value))
    => /\ Len(written) = 1
       /\ IsErrorWith(written[1], -32600)
       /\ ~(call.called /\ call.case \notin {"none", "default"})

\* C11: a POST /mcp whose body is no parseable JSON is answered with status 400
\* and a single error envelope of code -32700 with id null.
C11_MalformedBodyHttp ==
    httpBody = MalformedBody
    => /\ httpStatus = 400
       /\ httpSent.kind = "single" /\ Len(httpSent.items) = 1
       /\ IsErrorWith(httpSent.items[1], -32700)
       /\ httpSent.items[1].id = Null

\* C12: a line that fails JSON parsing gets exactly one line written, the error
\* response of code -32700 with id null, no handler is called for it, and once
\* the handler has returned every input line is accepted again.
C12_ParseErrorStdio ==
    /\ line = GarbageLine
       => /\ Len(written) = 1
          /\ IsErrorWith(written[1], -32700)
          /\ written[1].id = Null
          /\ ~call.called
          /\ ENABLED EndLine
    /\ (program = "stdio" /\ line = NoLine) => \A l \in Lines : ENABLED Line(l)

\* C12 happens: the line just handled was no JSON, and something was written
C12_Witness ==
    /\ program = "stdio"
    /\ line = GarbageLine
    /\ written # <<>>

\* the names the HTTP server's handlers know: the uris of handleReadResource, the
\* tools of handleCallTool, the prompts of handleGetPrompt
HttpKnown(method) ==
    CASE method = "resources/read" ->
            {Str("file:///example.txt"), Str("http://example.com/api/data")}
      [] method = "tools/call" -> {Str("echo"), Str("calculate")}
      [] method = "prompts/get" -> {Str("summarize")}

\* step i of the POST just answered is a request (it has an id) for the method,
\* with params that are an object
HttpRequestFor(i, method) ==
    /\ steps[i].dispatched
    /\ steps[i].request.method = Str(method)
    /\ steps[i].request.id # Undefined
    /\ steps[i].request.params.t = "object"

\* the line just handled is a request (it has an id) for the method, with params
\* that are an object
StdioRequestFor(method) ==
    /\ call.called
    /\ ~StructurallyInvalid(call.request)
    /\ call.request.method = Str(method)
    /\ call.request.id # Undefined
    /\ call.request.params.t = "object"

\* C13: resources/read with a uri that names no known (HTTP) or registered
\* (stdio) resource is answered with an error of code -32602.
C13_ReadUnknownResource ==
    /\ \A i \in 1..Len(steps) :
          (HttpRequestFor(i, "resources/read")
             /\ steps[i].request.params.uri \notin HttpKnown("resources/read"))
          => IsErrorWith(steps[i].pushed, -32602)
    /\ (StdioRequestFor("resources/read") /\ ~MapHas(resources, call.request.params.uri))
       => (Len(written) = 1 /\ IsErrorWith(written[1], -32602))

\* C14: tools/call whose params.name is missing or names no known (HTTP) or
\* registered (stdio) tool is answered with an error of code -32602.
C14_CallUnknownTool ==
    /\ \A i \in 1..Len(steps) :
          (HttpRequestFor(i, "tools/call")
             /\ steps[i].request.params.name \notin HttpKnown("tools/call"))
          => IsErrorWith(steps[i].pushed, -32602)
    /\ (StdioRequestFor("tools/call") /\ ~MapHas(tools, call.request.params.name))
       => (Len(written) = 1 /\ IsErrorWith(written[1], -32602))

\* C15: prompts/get whose params.name is absent or names no known (HTTP) or
\* registered (stdio) prompt is answered with an error of code -32602.
C15_GetUnknownPrompt ==
    /\ \A i \in 1..Len(steps) :
          (HttpRequestFor(i, "prompts/get")
             /\ steps[i].request.params.name \notin HttpKnown("prompts/get"))
          => IsErrorWith(steps[i].pushed, -32602)
    /\ (StdioRequestFor("prompts/get") /\ ~MapHas(prompts, call.request.params.name))
       => (Len(written) = 1 /\ IsErrorWith(written[1], -32602))

\* the thrown value carries a JSON-RPC error shape: a code and a message
CarriesErrorShape(thrown) == thrown.kind = "object" /\ thrown.error.kind = "error"

\* the response's error is the thrown error: same code, same message
ForwardsVerbatim(response, thrown) ==
    /\ response.kind = "response"
    /\ response.result = Absent
    /\ response.error.kind = "error"
    /\ response.error.code = thrown.error.code
    /\ response.error.message = thrown.error.message

\* C16: when a handler faults with a value that carries a code and a message, the
\* error of the response to the request has exactly that code and that message.
C16_TypedFaultForwarded ==
    /\ \A i \in 1..Len(steps) :
          (steps[i].dispatched /\ steps[i].request.id # Undefined
             /\ CarriesErrorShape(steps[i].thrown))
          => ForwardsVerbatim(steps[i].pushed, steps[i].thrown)
    /\ (call.called /\ call.request.id # Undefined /\ CarriesErrorShape(call.thrown))
       => (Len(written) = 1 /\ ForwardsVerbatim(written[1], call.thrown))

\* the response is the internal error whose data is the text and nothing else
IsInternalErrorOf(response, text) ==
    /\ IsErrorWith(response, -32603)
    /\ response.error.message = "Internal error"
    /\ response.error.data = Str(text)

\* C17: when a handler faults with a value that carries no JSON-RPC error shape,
\* handleRequest does not reject, and the request is answered with an error of
\* code -32603 whose data is the fault's message text.
C17_UntypedFaultWrapped ==
    /\ \A i \in 1..Len(steps) :
          (steps[i].dispatched /\ steps[i].thrown.kind = "Error")
          => IF steps[i].request.id # Undefined
             THEN IsInternalErrorOf(steps[i].pushed, steps[i].thrown.message)
             ELSE steps[i].pushed = NoResponse
    /\ (call.called /\ call.thrown.kind = "Error")
       => /\ ~call.rejected
          /\ call.request.id # Undefined
              => (Len(written) = 1
                    /\ IsInternalErrorOf(written[1], call.thrown.message))

\* a valid notification: a structurally valid message without an id
ValidNotification(value) == ~StructurallyInvalid(value) /\ value.id = Undefined

\* C18: the answer to a batch is an array with one entry for every member that
\* is no valid notification (an InvalidRequest entry for an invalid member) and
\* no entry for a valid notification; every member is processed.
C18_BatchEntries ==
    httpBody.kind = "batch"
    => /\ httpStatus = 200 /\ httpSent.kind = "array"
       /\ Len(steps) = Len(httpBody.requests)
       /\ \A i \in 1..Len(steps) :
             /\ steps[i].request = httpBody.requests[i]
             /\ (steps[i].pushed # NoResponse) <=> ~ValidNotification(httpBody.requests[i])
             /\ StructurallyInvalid(httpBody.requests[i])
                => IsErrorWith(steps[i].pushed, -32600)
       /\ Len(httpSent.items)
            = Cardinality({i \in 1..Len(httpBody.requests) :
                             ~ValidNotification(httpBody.requests[i])})

\* C19: the entries of a batch answer are in the order of the members that
\* produced them: the entry of member i is entry number (members up to i that
\* produced one), and there are no other entries.
C19_BatchOrder ==
    httpBody.kind = "batch"
    => /\ Len(steps) = Len(httpBody.requests)
       /\ Len(httpSent.items) = PushedUpTo(Len(steps))
       /\ \A i \in 1..Len(steps) :
             /\ steps[i].request = httpBody.requests[i]
             /\ steps[i].pushed # NoResponse
                => /\ PushedUpTo(i) \in 1..Len(httpSent.items)
                   /\ httpSent.items[PushedUpTo(i)] = Serialize(steps[i].pushed)

\* C19 happens: a batch of two requests with different ids, both answered
C19_Witness ==
    /\ httpBody.kind = "batch" /\ Len(httpBody.requests) = 2
    /\ Len(httpSent.items) = 2
    /\ steps[1].dispatched /\ steps[2].dispatched
    /\ httpSent.items[1].id # httpSent.items[2].id
    /\ httpSent.items[1].id = httpBody.requests[1].id

\* C20: a POST /mcp whose body is one valid notification is answered with status
\* 204 and no body, whatever its handler does.
C20_NotificationNoContent ==
    (httpBody.kind = "single" /\ ValidNotification(httpBody.requests[1]))
    => /\ httpStatus = 204
       /\ httpSent = NoneSent

C22_RequestIffId ==
    /\ \A i \in 1..Len(steps) :
          ~StructurallyInvalid(steps[i].request)
          => /\ steps[i].dispatched
             /\ (steps[i].pushed # NoResponse) <=> (steps[i].request.id # Undefined)
             /\ steps[i].request.id = Null => steps[i].pushed.id = Null
    /\ (call.called /\ ~StructurallyInvalid(call.request))
       => /\ (written # <<>>) <=> (call.request.id # Undefined)
          /\ call.request.id = Null => written[1].id = Null

\* the serialized response has exactly one of the members result and error
ExactlyOneOfResultError(response) ==
    (response.result # Absent) # (response.error # Absent)

\* C23: every response sent by POST /mcp or written to stdout has, as serialized,
\* exactly one of the members result and error.
C23_ResultXorError ==
    /\ \A k \in 1..Len(httpSent.items) :
          httpSent.items[k].kind = "response"
          => ExactlyOneOfResultError(httpSent.items[k])
    /\ \A k \in 1..Len(written) : ExactlyOneOfResultError(written[k])

\* C24: the response POST /mcp produces for a message whose id is a string or a
\* number has that id, whether it is a success, a handler error or an
\* InvalidRequest response.
C24_IdEchoedHttp ==
    \A i \in 1..Len(steps) :
        (steps[i].request.shape = "object"
           /\ steps[i].request.id.t \in {"string", "number"})
        => /\ steps[i].pushed # NoResponse
           /\ steps[i].pushed.id = steps[i].request.id

\* the key of a descriptor: the uri of a resource, the name of a tool or prompt
DescriptorKey(kind, descriptor) ==
    IF kind = "resource" THEN descriptor.uri ELSE descriptor.name

\* the descriptors passed to the register call of the kind, in call order
Registered(kind) ==
    LET OfKind(c) == c.kind = kind
        calls == SelectSeq(registered, OfKind)
    IN  [i \in 1..Len(calls) |-> calls[i].value]

\* the descriptor of the last register call with the key
LastRegistered(kind, key) ==
    LET ds == Registered(kind)
        last == CHOOSE i \in 1..Len(ds) :
                    /\ DescriptorKey(kind, ds[i]) = key
                    /\ \A j \in (i + 1)..Len(ds) : DescriptorKey(kind, ds[j]) # key
    IN  ds[last]

\* the list is the round trip of the register calls: one descriptor per key that
\* was registered, and for each key the descriptor of the last call, unchanged
RoundTrip(kind, list) ==
    /\ {DescriptorKey(kind, list[i]) : i \in 1..Len(list)}
         = {DescriptorKey(kind, Registered(kind)[i]) : i \in 1..Len(Registered(kind))}
    /\ \A i, j \in 1..Len(list) :
          DescriptorKey(kind, list[i]) = DescriptorKey(kind, list[j]) => i = j
    /\ \A i \in 1..Len(list) :
          list[i] = LastRegistered(kind, DescriptorKey(kind, list[i]))

\* the line just handled is a request of the list method that was answered
Listed(method) ==
    /\ call.called /\ call.case = method
    /\ call.request.id # Undefined
    /\ Len(written) = 1 /\ IsSuccess(written[1])

\* C25: after any sequence of register calls, tools/list returns one descriptor
\* per distinct tool name, the one of the last registerTool call with that name,
\* with all its fields; the same for resources/list and prompts/list.
C25_RegistryRoundTrip ==
    /\ Listed("tools/list") => RoundTrip("tool", written[1].result.tools)
    /\ Listed("resources/list") => RoundTrip("resource", written[1].result.resources)
    /\ Listed("prompts/list") => RoundTrip("prompt", written[1].result.prompts)

\* C25 happens: tools/list was answered after echo was registered a second time
C25_Witness ==
    /\ Listed("tools/list")
    /\ Len(Registered("tool")) = 4
    /\ Registered("tool")[4].name = "echo"
    /\ Registered("tool")[4] # Registered("tool")[1]

\* the number of the first register call of the kind with the key
FirstRegistered(kind, key) ==
    LET ds == Registered(kind)
    IN  CHOOSE i \in 1..Len(ds) :
            /\ DescriptorKey(kind, ds[i]) = key
            /\ \A j \in 1..(i - 1) : DescriptorKey(kind, ds[j]) # key

\* the list is in insertion order of its keys: an entry is before another one
\* exactly when its key was first registered before the other's
InsertionOrder(kind, list) ==
    \A i, j \in 1..Len(list) :
        i < j <=> FirstRegistered(kind, DescriptorKey(kind, list[i]))
                    < FirstRegistered(kind, DescriptorKey(kind, list[j]))

\* C26: resources/list, tools/list and prompts/list return the descriptors in
\* insertion order of their keys; a key that is registered again keeps its place.
C26_RegistryListOrder ==
    /\ Listed("tools/list") => InsertionOrder("tool", written[1].result.tools)
    /\ Listed("resources/list")
         => InsertionOrder("resource", written[1].result.resources)
    /\ Listed("prompts/list") => InsertionOrder("prompt", written[1].result.prompts)

\* C26 happens: resources/list was answered after the first resource of
\* setupServer was registered again, and the new descriptor is the first entry
C26_Witness ==
    /\ Listed("resources/list")
    /\ Len(Registered("resource")) = 3
    /\ Registered("resource")[3].uri = Registered("resource")[1].uri
    /\ Registered("resource")[3] # Registered("resource")[1]
    /\ written[1].result.resources[1] = Registered("resource")[3]

\* the arguments with which the calculate tool reports a handled failure: for the
\* HTTP server an expression that is missing, malformed or not finite; for the
\* stdio server a division by zero or an unknown operation
FailingCalculation(server, args) ==
    IF server = "express"
    THEN args.expression \in {Undefined, Str(""), Str("abc"), Str("1/0")}
    ELSE \/ args.operation = Str("divide") /\ args.b = Num("0")
         \/ args.operation \notin {Str("add"), Str("subtract"), Str("multiply"),
                                   Str("divide")}

\* a success response whose result is a tool result with isError true and a
\* text block
IsToolFailure(response) ==
    /\ IsSuccess(response)
    /\ response.result.kind = "toolResult"
    /\ "isError" \in DOMAIN response.result
    /\ response.result.isError = Bool("true")
    /\ Len(response.result.content) >= 1
    /\ response.result.content[1].type = "text"

\* C27: tools/call on the calculate tool with arguments that make the tool report
\* a handled failure is answered with a success response whose result has
\* isError true and a text block, on both servers.
C27_HandledToolFailure ==
    /\ \A i \in 1..Len(steps) :
          (HttpRequestFor(i, "tools/call")
             /\ steps[i].handler = "handleCallTool"
             /\ steps[i].request.params.name = Str("calculate")
             /\ FailingCalculation("express", steps[i].request.params.arguments))
          => IsToolFailure(steps[i].pushed)
    /\ (StdioRequestFor("tools/call")
          /\ call.request.params.name = Str("calculate")
          /\ FailingCalculation("stdio", call.request.params.arguments))
       => (Len(written) = 1 /\ IsToolFailure(written[1]))

\* C28: on the HTTP server, tools/call of echo with arguments.text a non-empty
\* string is answered with a success whose result holds one text block with that
\* text and no isError flag.
C28_EchoReturnsText ==
    \A i \in 1..Len(steps) :
        (HttpRequestFor(i, "tools/call")
           /\ steps[i].handler = "handleCallTool"
           /\ steps[i].request.params.name = Str("echo")
           /\ steps[i].request.params.arguments.text.t = "string"
           /\ steps[i].request.params.arguments.text.v # "")
        => /\ IsSuccess(steps[i].pushed)
           /\ steps[i].pushed.result.kind = "toolResult"
           /\ steps[i].pushed.result.content
                = <<[type |-> "text", text |-> steps[i].request.params.arguments.text]>>
           /\ steps[i].pushed.result.isError = Undefined
           /\ \E k \in 1..Len(httpSent.items) :
                 httpSent.items[k] = Serialize(steps[i].pushed)

\* C28 happens: echo was called with the text "Hello, World!" and answered
C28_Witness ==
    \E i \in 1..Len(steps) :
        /\ HttpRequestFor(i, "tools/call")
        /\ steps[i].request.params.name = Str("echo")
        /\ steps[i].request.params.arguments.text = Str("Hello, World!")
        /\ steps[i].pushed # NoResponse

\* C29: registerMethod is last-registration-wins.  After registerMethod(m, h2)
\* the table maps m to h2 until the next registerMethod call, every dispatch of m
\* invokes h2 and ends as h2 ends (the handler m had before does not run), and
\* the call leaves the handlers of all other method names unchanged.
C29_LastRegistrationWins ==
    /\ [](lastRegisterMethod # NoRegisterMethod
           => /\ methodHandlers[lastRegisterMethod.method] = lastRegisterMethod.handler
              /\ \A i \in 1..Len(steps) :
                    (steps[i].dispatched
                       /\ steps[i].request.method = Str(lastRegisterMethod.method))
                    => /\ steps[i].handler = lastRegisterMethod.handler
                       /\ steps[i].outcome
                            = IF lastRegisterMethod.handler = "extReturn"
                              THEN "return" ELSE "throw"
              \* the built-in handler of initialize no longer runs
              /\ (lastRegisterMethod.method = "initialize" /\ steps # <<>>)
                 => initialized = steps[1].initializedBefore)
    /\ [][registerCalls' # registerCalls
            => \A m \in DOMAIN methodHandlers :
                  m # lastRegisterMethod'.method => methodHandlers'[m] = methodHandlers[m]]_vars

\* C29 happens: initialize, which had the built-in handler, was registered again
\* and then dispatched
C29_Witness ==
    /\ lastRegisterMethod.method = "initialize"
    /\ lastRegisterMethod.handler = "extReturn"
    /\ \E i \in 1..Len(steps) :
          steps[i].dispatched /\ steps[i].request.method = Str("initialize")

\* C30: on both servers a request for a method of the fixed method table finds
\* a handler and is not answered with MethodNotFound.
C30_MethodTableSupported ==
    LET MethodTable ==
            {"initialize", "initialized", "notifications/initialized", "resources/list",
             "resources/read", "tools/list", "tools/call", "prompts/list", "prompts/get",
             "logging/setLevel"}
    IN
    /\ \A i \in 1..Len(steps) :
          (steps[i].dispatched
             /\ steps[i].request.id # Undefined
             /\ steps[i].request.method \in {Str(m) : m \in MethodTable})
          => /\ steps[i].outcome # "notfound"
             /\ ~IsErrorWith(steps[i].pushed, -32601)
    /\ (call.called
          /\ ~StructurallyInvalid(call.request)
          /\ call.request.id # Undefined
          /\ call.request.method \in {Str(m) : m \in MethodTable})
       => /\ call.case # "default"
          /\ ~IsErrorWith(written[1], -32601)

\* C31: capabilities and serverInfo of both servers are what the constructor set,
\* in every state; every successful response of the built-in initialize and every
\* answer of GET /health reports them.
C31_CapabilitiesFixed ==
    /\ capabilities = ExpressCapabilities /\ serverInfo = ExpressServerInfo
    /\ sCapabilities = StdioCapabilities /\ sServerInfo = StdioServerInfo
    /\ \A i \in 1..Len(steps) :
          (HttpRequestFor(i, "initialize") /\ steps[i].handler = "handleInitialize")
          => /\ IsSuccess(steps[i].pushed)
             /\ steps[i].pushed.result.capabilities = ExpressCapabilities
             /\ steps[i].pushed.result.serverInfo = ExpressServerInfo
    /\ httpBody = HealthRequest
       => /\ httpStatus = 200
          /\ httpSent.items[1].capabilities = ExpressCapabilities
          /\ httpSent.items[1].server = ExpressServerInfo
    /\ (call.called /\ call.case = "initialize" /\ call.request.id # Undefined
          /\ IsSuccess(call.response))
       => /\ written[1].result.capabilities = StdioCapabilities
          /\ written[1].result.serverInfo = StdioServerInfo

\* C31 happens: GET /health is answered after the session was initialized and a
\* method was registered
C31_Witness ==
    /\ httpBody = HealthRequest
    /\ initialized
    /\ registerCalls > 0

\* C32 as stated: outside development, the error sent for a handler fault is
\* generic: its data is not the fault's message text.
C32_GenericHandlerError ==
    ~development
    => \A i \in 1..Len(steps) :
          (steps[i].dispatched /\ steps[i].request.id # Undefined
             /\ steps[i].thrown # Absent /\ steps[i].thrown.kind = "Error")
          => /\ IsErrorWith(steps[i].pushed, -32603)
             /\ steps[i].pushed.error.data # Str(steps[i].thrown.message)

\* C32 amended: outside development, the answer of the global error handler
\* (status 500) is generic: its message is 'An unexpected error occurred', not the
\* message of the error; the JSON-RPC error for a handler fault has the fault's
\* message text as its data in every posture.
C32_GenericErrorHandlerBody ==
    /\ (httpBody = MalformedBody /\ ~development)
       => /\ httpStatus = 500
          /\ httpSent.items = <<[kind |-> "plain", error |-> "Internal Server Error",
                                  message |-> "An unexpected error occurred"]>>
    /\ \A i \in 1..Len(steps) :
          (steps[i].dispatched /\ steps[i].request.id # Undefined
             /\ steps[i].thrown # Absent /\ steps[i].thrown.kind = "Error")
          => IsInternalErrorOf(steps[i].pushed, steps[i].thrown.message)

\* C32 happens: outside development the global error handler has answered
C32_Witness ==
    /\ ~development
    /\ httpBody = MalformedBody
    /\ httpStatus = 500


----------------------------------------------------------------------------
(* POST /mcp step by step.  The for loop of handleMcpRequest suspends at    *)
(* await this.mcpServer.handleRequest(validationResult) until the member's  *)
(* handler has completed; here the call and its completion are two steps,   *)
(* and a registered handler may return a promise that never settles.        *)

\* a handler whose promise never settles: a provider that never answers
HangingHandlers == {"extHang"}
Hangs(handler) == handler \in HangingHandlers

\* a handleRequest call that has not completed: the member's place in the
\* body, the step it will add, and whether its handler hangs
Suspended(index, step, hung) == [index |-> index, step |-> step, hung |-> hung]

\* the step of a member whose handler hangs
HungStep(requestData, st) ==
    [request |-> requestData, dispatched |-> TRUE,
     handler |-> methodHandlers[requestData.method.v], outcome |-> "pending",
     thrown |-> Absent, ret |-> NoResponse, pushed |-> NoResponse,
     initializedBefore |-> st.initialized]

\* a faulty variant: the loop does not await the call
LoopMayContinue_NoAwait(flight) == TRUE

\* the await of line 131: the loop goes on, to the next member or to the
\* answer, only when no call of its is in flight
LoopMayContinue(flight) == flight = <<>>

Remove(s, j) == SubSeq(s, 1, j - 1) \o SubSeq(s, j + 1, Len(s))

\* the members of the bodies posted here
FlightMembers ==
    {Message(V2, Num("1"), Str("initialize"), InitializeParams(Str(ProtocolVersion)), Undefined),
     Message(V2, Num("2"), Str("ext/custom"), NoParams, Undefined),
     Message(V2, Undefined, Str("ext/custom"), NoParams, Undefined),
     Message(V2, Str("a"), Str("tools/list"), NoParams, Undefined),
     Message(Undefined, Num("1"), Str("initialize"), NoParams, Undefined)}

FlightBodies ==
    {[kind |-> "single", requests |-> <<m>>] : m \in FlightMembers}
    \cup {[kind |-> "batch", requests |-> b] : b \in SeqsUpTo(FlightMembers, MaxBatch)}

\* POST /mcp arrives: lines 105-117
BeginPost(body) ==
    /\ program = "express"
    /\ httpBody = NoBody
    /\ httpBody' = body
    /\ httpStatus' = 0
    /\ httpSent' = NoneSent
    /\ steps' = <<>>
    /\ taken' = 0
    /\ inFlight' = <<>>
    /\ UNCHANGED <<program, development, initialized, methodHandlers, capabilities,
                   serverInfo, logLevel, registerCalls, lastRegisterMethod, stdioVars,
                   reads, queue, stdout, draining>>

\* one turn of the for loop, lines 119-131: the member is rejected, or
\* handleRequest is called for it and the loop awaits the call
TakeMember ==
    /\ program = "express"
    /\ httpBody.kind \in {"single", "batch"}
    /\ httpStatus = 0
    /\ taken < Len(httpBody.requests)
    /\ LoopMayContinue(inFlight)
    /\ taken' = taken + 1
    /\ LET requestData == httpBody.requests[taken + 1]
           st == [initialized |-> initialized, logLevel |-> logLevel]
       IN  IF HasCode(validateJsonRpcRequest(requestData))
              \/ ~Hangs(methodHandlers[requestData.method.v])
           THEN LET m == ProcessMember(requestData, st)
                IN  /\ initialized' = m.st.initialized
                    /\ logLevel' = m.st.logLevel
                    /\ IF m.step.dispatched
                       THEN /\ inFlight' = Append(inFlight,
                                                  Suspended(taken + 1, m.step, FALSE))
                            /\ steps' = steps
                       ELSE /\ inFlight' = inFlight
                            /\ steps' = Append(steps, m.step)
           ELSE /\ inFlight' = Append(inFlight,
                                      Suspended(taken + 1, HungStep(requestData, st), TRUE))
                /\ UNCHANGED <<initialized, logLevel, steps>>
    /\ UNCHANGED <<program, development, methodHandlers, capabilities, serverInfo,
                   registerCalls, lastRegisterMethod, httpBody, httpStatus, httpSent,
                   stdioVars, reads, queue, stdout, draining>>

\* a handleRequest call completes and the loop resumes: lines 131-134
CompleteMember(j) ==
    /\ program = "express"
    /\ j \in 1..Len(inFlight)
    /\ ~inFlight[j].hung
    /\ steps' = Append(steps, inFlight[j].step)
    /\ inFlight' = Remove(inFlight, j)
    /\ UNCHANGED <<program, development, initialized, methodHandlers, capabilities,
                   serverInfo, logLevel, registerCalls, lastRegisterMethod, httpBody,
                   httpStatus, httpSent, taken, stdioVars, reads, queue, stdout, draining>>

\* the loop is over: the answer, lines 149-159
SendAnswer ==
    /\ program = "express"
    /\ httpBody.kind \in {"single", "batch"}
    /\ httpStatus = 0
    /\ taken = Len(httpBody.requests)
    /\ LoopMayContinue(inFlight)
    /\ LET answer == Answer(httpBody.kind = "batch", Responses(steps))
       IN  /\ httpStatus' = answer.status
           /\ httpSent' = answer.sent
    /\ UNCHANGED <<program, development, initialized, methodHandlers, capabilities,
                   serverInfo, logLevel, registerCalls, lastRegisterMethod, httpBody,
                   steps, taken, inFlight, stdioVars, reads, queue, stdout, draining>>

\* the answer has been sent and every call has completed: the exchange is over
EndExchange ==
    /\ program = "express"
    /\ httpStatus # 0
    /\ inFlight = <<>>
    /\ httpBody' = NoBody
    /\ httpStatus' = 0
    /\ httpSent' = NoneSent
    /\ steps' = <<>>
    /\ taken' = 0
    /\ UNCHANGED <<program, development, initialized, methodHandlers, capabilities,
                   serverInfo, logLevel, registerCalls, lastRegisterMethod, inFlight,
                   stdioVars, reads, queue, stdout, draining>>

FlightInit == Init /\ program = "express"

FlightNext ==
    \/ \E body \in FlightBodies : BeginPost(body)
    \/ TakeMember
    \/ \E j \in 1..MaxBatch : CompleteMember(j)
    \/ SendAnswer
    \/ EndExchange
    \/ \E method \in RegMethods, handler \in ExtHandlers \cup HangingHandlers :
            RegisterMethod(method, handler)

FlightSpec == FlightInit /\ [][FlightNext]_vars

\* a member whose handler hangs is in flight
HungInFlight == \E j \in 1..Len(inFlight) : inFlight[j].hung

\* C33: HTTP batch: the answer is sent only after the handler of every member
\* has completed, a member is not dispatched before the handler of the member
\* before it has completed, and once a member's handler hangs no answer is
\* sent and no later member is dispatched.
C33_BatchAwaitsMembers ==
    /\ [](/\ httpStatus # 0
             => (inFlight = <<>> /\ Len(steps) = Len(httpBody.requests))
          /\ \A j \in 1..Len(inFlight) : inFlight[j].index = taken
          /\ Len(steps) + Len(inFlight) = taken)
    /\ [][HungInFlight
            => (HungInFlight' /\ httpStatus' = 0 /\ taken' = taken /\ steps' = steps)]_vars

\* a batch of two members whose first member's handler hangs
C33_Witness ==
    /\ httpBody.kind = "batch"
    /\ Len(httpBody.requests) = 2
    /\ HungInFlight
    /\ taken = 1
    /\ httpStatus = 0


----------------------------------------------------------------------------
(* stdin with the line handlers in flight.  readline emits the lines of an  *)
(* input chunk one after the other; each async line handler runs up to its  *)
(* first await and is suspended, and the suspended handlers resume in turn  *)
(* once the chunk is read.  The operations of MCPServer hold no await       *)
(* before their effect, so a call reads and changes the session when the    *)
(* line is read, and only the write of the response comes later.            *)

\* the most lines the model keeps from reading to writing
MaxLines == 2

\* the awaits a line handler goes through before it writes: its own await of
\* handleRequest, the await of the operation in the switch, and the await of
\* executeTool in callTool
Suspensions(c) ==
    IF c.rejected \/ c.case \in {"notifications/initialized", "default"} THEN 1
    ELSE IF c.case = "tools/call" /\ c.thrown = Absent THEN 3
    ELSE 2

\* the lines a handler writes, tagged with the place of its input line
Tag(seq, lines) == [i \in 1..Len(lines) |-> [seq |-> seq, text |-> lines[i]]]

\* a suspended line handler
Job(seq, lines, ticks) == [seq |-> seq, lines |-> lines, ticks |-> ticks]

\* a faulty variant: the handler writes its response each time it resumes
Resume_WritesEachTurn(job) ==
    IF job.ticks > 1
    THEN [again |-> <<[job EXCEPT !.ticks = @ - 1]>>, writes |-> Tag(job.seq, job.lines)]
    ELSE [again |-> <<>>, writes |-> Tag(job.seq, job.lines)]

\* a suspended handler resumes: it is suspended again at its next await, or it
\* writes its response and returns
Resume(job) ==
    IF job.ticks > 1
    THEN [again |-> <<[job EXCEPT !.ticks = @ - 1]>>, writes |-> <<>>]
    ELSE [again |-> <<>>, writes |-> Tag(job.seq, job.lines)]

\* the input lines read here
FlightLines ==
    {BlankLine, GarbageLine, JsonLine(NonObject("null"))}
    \cup {JsonLine(Message(V2, i, Str("initialize"),
                           InitializeParams(Str(ProtocolVersion)), Undefined)) :
            i \in {Num("1"), Num("2")}}
    \cup {JsonLine(Message(V2, i, Str("tools/list"), NoParams, Undefined)) :
            i \in {Str("a"), Null, Undefined}}
    \cup {JsonLine(Message(V2, Num("3"), Str("notifications/initialized"), NoParams,
                           Undefined)),
          JsonLine(Message(V2, Num("0"), Str("unknown/method"), NoParams, Undefined)),
          JsonLine(Message(V2, Num("4"), Str("tools/call"),
                           NameParams(Str("echo"), Args(Undefined, Undefined, Str("hi"))),
                           Undefined)),
          JsonLine(Message(V2, Num("5"), Str("tools/call"),
                           NameParams(Str("nope"), NoArgs), Undefined))}

\* a line event: the handler runs up to its first await (lines 253-259); a
\* blank line returns and a line that is no JSON is answered at once
ReadLine(l) ==
    /\ program = "stdio"
    /\ ~draining
    /\ Len(reads) < MaxLines
    /\ LET h == LineHandler(l, [initialized |-> sInitialized])
           seq == Len(reads) + 1
       IN  /\ sInitialized' = h.st.initialized
           /\ reads' = Append(reads, [line |-> l, call |-> h.call])
           /\ IF h.call.called
              THEN /\ queue' = Append(queue, Job(seq, h.written, Suspensions(h.call)))
                   /\ stdout' = stdout
              ELSE /\ queue' = queue
                   /\ stdout' = stdout \o Tag(seq, h.written)
    /\ UNCHANGED <<program, development, httpVars, sCapabilities, sServerInfo, resources,
                   tools, prompts, registrations, registered, line, call, written,
                   taken, inFlight, draining>>

\* the suspended handler that is first in turn resumes
RunMicrotask ==
    /\ program = "stdio"
    /\ queue # <<>>
    /\ LET r == Resume(Head(queue))
       IN  /\ queue' = Tail(queue) \o r.again
           /\ stdout' = stdout \o r.writes
           /\ draining' = (Tail(queue) \o r.again # <<>>)
    /\ UNCHANGED <<program, development, httpVars, stdioVars, taken, inFlight, reads>>

\* every handler has returned: the lines read and written are forgotten
EndLines ==
    /\ program = "stdio"
    /\ queue = <<>>
    /\ reads # <<>>
    /\ reads' = <<>>
    /\ stdout' = <<>>
    /\ UNCHANGED <<program, development, httpVars, stdioVars, taken, inFlight, queue,
                   draining>>

LinesInit == Init /\ program = "stdio"

LinesNext ==
    \/ \E l \in FlightLines : ReadLine(l)
    \/ RunMicrotask
    \/ EndLines

\* the event loop runs the suspended handlers: a handler that can resume does
LinesSpec == LinesInit /\ [][LinesNext]_vars /\ WF_vars(RunMicrotask)

\* the s-th line read is a request that carries an id
RequestWithId(s) ==
    /\ s <= Len(reads)
    /\ reads[s].call.called
    /\ ~reads[s].call.rejected
    /\ reads[s].call.request.id # Undefined

\* the lines written for the s-th line read
WrittenFor(s) ==
    LET Test(w) == w.seq = s
    IN  SelectSeq(stdout, Test)

\* the handler of the s-th line read is suspended
InQueue(s) == \E j \in 1..Len(queue) : queue[j].seq = s

\* the s-th line read has got its one response, with its id
Answered(s) ==
    /\ RequestWithId(s)
    /\ Len(WrittenFor(s)) = 1
    /\ WrittenFor(s)[1].text.id = reads[s].call.request.id

\* C34: stdio under interleaving: a request line with an id never gets more
\* than one response line, a response line written for it carries its id, it
\* has exactly one once its handler has returned, and it eventually gets it.
C34_EachRequestAnsweredOnce ==
    /\ [](\A s \in 1..Len(reads) :
            RequestWithId(s)
            => /\ Len(WrittenFor(s)) <= 1
               /\ \A j \in 1..Len(WrittenFor(s)) :
                     WrittenFor(s)[j].text.id = reads[s].call.request.id
               /\ ~InQueue(s) => Answered(s))
    /\ \A s \in 1..MaxLines : RequestWithId(s) ~> Answered(s)

\* two requests with ids whose responses are written in the order opposite to
\* the order they were read in
C34_Witness ==
    /\ Len(reads) = 2
    /\ RequestWithId(1)
    /\ RequestWithId(2)
    /\ Len(stdout) = 2
    /\ stdout[1].seq = 2
    /\ stdout[2].seq = 1
    /\ Answered(1)
    /\ Answered(2)


\* the lines read whose initialize call returned a result
InitializeSuccesses ==
    {s \in 1..Len(reads) : /\ reads[s].call.called
                           /\ reads[s].call.case = "initialize"
                           /\ reads[s].call.thrown = Absent}

\* C35: stdio server: of the initialize requests dispatched to the session, in
\* any interleaving of their handlers, at most one gets a success result: a
\* success leaves the session initialized, and no initialize request succeeds
\* once the session is initialized.
C35_OneInitializeSucceeds ==
    /\ [](/\ Cardinality(InitializeSuccesses) <= 1
          /\ InitializeSuccesses # {} => sInitialized)
    /\ [][sInitialized => InitializeSuccesses' \subseteq InitializeSuccesses]_vars

\* two initialize requests whose handlers are both suspended, one of them
\* with a success result
C35_Witness ==
    /\ Len(reads) = 2
    /\ \A s \in 1..2 : reads[s].call.called /\ reads[s].call.case = "initialize"
    /\ InQueue(1)
    /\ InQueue(2)
    /\ Cardinality(InitializeSuccesses) = 1


\* C36: a notification whose method is initialize runs the initialize handler
\* as a request does: on the HTTP server the session is initialized and
\* nothing is pushed for it; on the stdio server nothing is written and the
\* session is initialized exactly when it was before or the handler returned.
C36_InitializeNotification ==
    /\ \A i \in 1..Len(steps) :
          (steps[i].dispatched /\ steps[i].request.id = Undefined
             /\ steps[i].handler = "handleInitialize")
          => /\ steps[i].pushed = NoResponse
             /\ steps[i].outcome = "return"
             /\ initialized
    /\ (call.called /\ call.case = "initialize" /\ call.request.id = Undefined)
       => /\ written = <<>>
          /\ sInitialized <=> (call.initializedBefore \/ call.thrown = Absent)
          /\ (~call.initializedBefore
                  /\ call.request.params = InitializeParams(Str(ProtocolVersion)))
             => call.thrown = Absent

\* a single initialize notification to a fresh HTTP session: 204, initialized
C36_Witness ==
    /\ httpBody.kind = "single"
    /\ Len(steps) = 1
    /\ steps[1].dispatched
    /\ steps[1].request.id = Undefined
    /\ steps[1].handler = "handleInitialize"
    /\ ~steps[1].initializedBefore
    /\ httpStatus = 204
    /\ initialized


\* the keys a client may ask for: registered ones and others
ProbeKeys ==
    {Str(k) : k \in {"file://example.txt", "config://server-info", "memo://notes",
                     "file:///missing", "echo", "calculate", "timestamp", "reverse",
                     "summarize", "translate", "nope"}}

\* the keys of the descriptors a list operation returned
KeysOf(kind, descriptors) ==
    {Str(DescriptorKey(kind, descriptors[i])) : i \in 1..Len(descriptors)}

\* the operation faulted with its 'not found' error
NotFound(r) ==
    /\ r.kind = "throw"
    /\ ~r.thrown.isError
    /\ r.thrown.error.code = InvalidParams

\* C37: stdio registries: in every state a key is among those resources/list
\* (tools/list, prompts/list) returns if and only if resources/read
\* (tools/call, prompts/get) with the key does not fault with 'not found';
\* and a registry changes only in a register call, never in a line handler.
C37_RegistryConsistency ==
    /\ [](LET st == [initialized |-> sInitialized]
          IN  \A k \in ProbeKeys :
                /\ k \in KeysOf("resource", listResources(st).value.resources)
                   <=> ~NotFound(readResource(UriParams(k), st))
                /\ k \in KeysOf("tool", listTools(st).value.tools)
                   <=> ~NotFound(callTool(NameParams(k, NoArgs), st))
                /\ k \in KeysOf("prompt", listPrompts(st).value.prompts)
                   <=> ~NotFound(getPrompt(NameParams(k, NoArgs), st)))
    /\ [][/\ (resources' # resources \/ tools' # tools \/ prompts' # prompts)
             => (registrations' = registrations + 1 /\ line = NoLine /\ line' = NoLine)
          /\ line' # line => UNCHANGED <<resources, tools, prompts>>]_vars

\* a resource registered after setup is read by a request
C37_Witness ==
    /\ registrations = 1
    /\ MapHas(resources, Str("memo://notes"))
    /\ call.called
    /\ call.case = "resources/read"
    /\ call.request.params = UriParams(Str("memo://notes"))
    /\ call.thrown = Absent


\* C38: the id of every response POST /mcp writes is a string, a number or
\* null, whatever the input message, those rejected for the type of their id
\* included.
C38_ResponseIdType ==
    \A k \in 1..Len(httpSent.items) :
        httpSent.items[k].kind = "response"
        => httpSent.items[k].id.t \in {"string", "number", "null"}


\* the session after the i-th member of the body
InitializedAfter(i) ==
    IF i < Len(steps) THEN steps[i + 1].initializedBefore ELSE initialized

\* C39: a message rejected by validation is not dispatched and leaves the
\* session as it was, an initialize message among them included; and the
\* other members of the body are handled as the body without the rejected
\* members is.
C39_RejectedLeavesSession ==
    /\ \A i \in 1..Len(steps) :
          StructurallyInvalid(steps[i].request)
          => /\ ~steps[i].dispatched
             /\ InitializedAfter(i) = steps[i].initializedBefore
    /\ steps # <<>>
       => LET Accepted(s) == ~StructurallyInvalid(s.request)
              others == SelectSeq(steps, Accepted)
              run == RunMembers([i \in 1..Len(others) |-> others[i].request],
                                [initialized |-> steps[1].initializedBefore,
                                 logLevel |-> logLevel], <<>>)
          IN  /\ run.steps = others
              /\ run.st.initialized = initialized

\* a batch of an initialize message without jsonrpc and a valid request, to a
\* session that is not initialized and stays so
C39_Witness ==
    /\ httpBody.kind = "batch"
    /\ Len(steps) = 2
    /\ StructurallyInvalid(steps[1].request)
    /\ steps[1].request.method = Str("initialize")
    /\ ~steps[1].initializedBefore
    /\ steps[2].dispatched
    /\ steps[2].request.method = Str("tools/list")
    /\ ~initialized

====
